---- MODULE Spec2Model ----
(***************************************************************************)
(* Asynchronous subagent job manager of codex-mcp-server                   *)
(* (src/src/jobs/job_manager.ts) and the tool handlers that drive it       *)
(* (src/src/tools/handlers.ts).                                            *)
(*                                                                         *)
(* The registry `jobs` is the Map<string, JobRecord> of CodexJobManager in *)
(* insertion order; a job's identifier (randomUUID in the source) is its   *)
(* position.  Each record carries the fields of JobRecord; the field       *)
(* `child` is the state of the ChildProcess the record holds, as far as    *)
(* Node's child_process contract determines which callbacks can still      *)
(* arrive:                                                                 *)
(*   "nospawn"  spawn() failed, the 'error' callback is queued on          *)
(*              process.nextTick                                           *)
(*   "live"     the process runs; stdout data, kill and 'close' can happen *)
(*   "failing"  the spawn 'error' callback ran; Node emits 'close' (with   *)
(*              the negative errno as code) once the pipes are closed      *)
(*   "closed"   'close' was emitted; nothing arrives any more              *)
(***************************************************************************)
EXTENDS Integers, Sequences, FiniteSets

VARIABLES
  jobs,        \* CodexJobManager.jobs: sequence of JobRecord
  clock,       \* the wall clock read by nowIso()
  envMaxJobs,  \* process.env.CODEX_MCP_MAX_JOBS (a string, or unset)
  envDefaultSandbox,  \* process.env.CODEX_MCP_DEFAULT_SANDBOX (the same)
  reader,      \* a coordinator paging through codex_events: its last response
  calls        \* in-flight codex_interrupt calls, one record per call slot

vars == <<jobs, clock, envMaxJobs, envDefaultSandbox, reader, calls>>

----------------------------------------------------------------------------
(* Bounds of the model *)

\* registry size in the multi-job specification
MaxJobs == 2
\* a job takes stdout chunks while its event vector is shorter than this
MaxIngest == 3
\* longest stdout remainder a chunk may leave behind
MaxRemainder == 2
\* largest value of the clock
MaxClock == 1
\* the cap of the output tails, in bytes; it stands for the 2 MiB of
\* MAX_OUTPUT_BUFFER_BYTES
MaxTailBytes == 4
\* longest stdout stream, in code units, of the tail specification
MaxStream == 4

----------------------------------------------------------------------------
(* Values *)

Undefined == "undefined"

\* an optional number (exitCode, finishedAt, the result of parseInt): a number,
\* undefined, null or NaN
Num(v) == [tag |-> "num", val |-> v]
UndefinedNum == [tag |-> "undefined", val |-> 0]
NullNum == [tag |-> "null", val |-> 0]
NaN == [tag |-> "NaN", val |-> 0]

\* an optional string (an environment variable, a cursor argument): <<>> when
\* absent, <<s>> when present
NoString == <<>>
Str(s) == <<s>>

\* an optional boolean (fullAuto): <<>> when absent, <<b>> when present
NoBool == <<>>
Bool(b) == <<b>>
IsTrue(ob) == ob = Bool(TRUE)

\* JavaScript truthiness of an optional string
Truthy(s) == s # Undefined /\ s # ""

SandboxMode == {"read-only", "workspace-write", "danger-full-access"}

\* the argument of -c for a reasoning effort
EffortArg(effort) ==
  CASE effort = "low" -> "model_reasoning_effort=\"low\""
    [] effort = "medium" -> "model_reasoning_effort=\"medium\""
    [] effort = "high" -> "model_reasoning_effort=\"high\""

\* CodexSpawnJobArgs
SpawnArgs(prompt, model, reasoningEffort, sandbox, fullAuto, workingDirectory, label) ==
  [prompt |-> prompt, model |-> model, reasoningEffort |-> reasoningEffort,
   sandbox |-> sandbox, fullAuto |-> fullAuto,
   workingDirectory |-> workingDirectory, label |-> label]

\* the `overrides` argument of codex_interrupt
Overrides(model, reasoningEffort, sandbox, fullAuto, workingDirectory) ==
  [model |-> model, reasoningEffort |-> reasoningEffort, sandbox |-> sandbox,
   fullAuto |-> fullAuto, workingDirectory |-> workingDirectory]

NoOverrides == Overrides(Undefined, Undefined, Undefined, NoBool, Undefined)

\* parseMaxJobsFromEnv's fallback
DefaultMaxJobs == 32

Terminal == {"done", "failed", "canceled"}

LF == "\n"
SP == " "

Max(a, b) == IF a >= b THEN a ELSE b
Min(a, b) == IF a <= b THEN a ELSE b

----------------------------------------------------------------------------
(* Decimal strings: Number.parseInt(s, 10) and String(n).  A string is a    *)
(* sequence of one-character strings.                                       *)

Digits == <<"0", "1", "2", "3", "4", "5", "6", "7", "8", "9">>

IsDigit(c) == \E i \in 1..10 : Digits[i] = c

DigitVal(c) == (CHOOSE i \in 1..10 : Digits[i] = c) - 1

\* value of the longest prefix of digits of s, acc being the value so far
RECURSIVE DigitsPrefix(_, _)
DigitsPrefix(s, acc) ==
  IF s = <<>> \/ ~IsDigit(Head(s)) THEN acc
  ELSE DigitsPrefix(Tail(s), acc * 10 + DigitVal(Head(s)))

RECURSIVE SkipSpace(_)
SkipSpace(s) == IF s # <<>> /\ Head(s) = SP THEN SkipSpace(Tail(s)) ELSE s

\* Number.parseInt(s, 10): leading blanks, an optional sign, then digits;
\* NaN when no digit follows
ParseInt(s) ==
  LET t == SkipSpace(s)
      neg == t # <<>> /\ Head(t) = "-"
      u == IF t # <<>> /\ Head(t) \in {"-", "+"} THEN Tail(t) ELSE t
  IN IF u = <<>> \/ ~IsDigit(Head(u)) THEN NaN
     ELSE IF neg THEN Num(0 - DigitsPrefix(u, 0)) ELSE Num(DigitsPrefix(u, 0))

\* String(n) for a non-negative integer
RECURSIVE StringOf(_)
StringOf(n) ==
  IF n < 10 THEN <<Digits[n + 1]>>
  ELSE Append(StringOf(n \div 10), Digits[(n % 10) + 1])

----------------------------------------------------------------------------
(* nowIso and parseMaxJobsFromEnv *)

nowIso == clock

parseMaxJobsFromEnv ==
  IF envMaxJobs = NoString \/ envMaxJobs = Str(<<>>) THEN DefaultMaxJobs
  ELSE LET parsed == ParseInt(envMaxJobs[1])
       IN IF parsed = NaN THEN DefaultMaxJobs
          ELSE IF parsed.val <= 0 THEN DefaultMaxJobs
          ELSE parsed.val

----------------------------------------------------------------------------
(* Events.  content is reduced to the properties the manager and the        *)
(* handlers read back: kind, text, message, and for `final` status and      *)
(* exitCode.                                                                *)

Content(kind, text) ==
  [kind |-> kind, text |-> text, message |-> Undefined,
   status |-> Undefined, exitCode |-> UndefinedNum, lastMessage |-> Undefined]

Event(type, content, stamp) ==
  [type |-> type, content |-> content, timestamp |-> stamp]

\* normalizeThreadEvent returns zero or one event: <<>> stands for null
NoEvent == <<>>

\* Decoded JSON values, as normalizeThreadEvent sees them: isObject is
\* `rawEvent && typeof rawEvent === 'object'`, type is ev.type (Undefined when
\* it is no string), itemType is ev.item?.type, text is ev.item?.text and
\* kind is a top-level property `kind` of the raw object.
Raw(isObject, type, itemType, text, kind) ==
  [isObject |-> isObject, type |-> type, itemType |-> itemType,
   text |-> text, kind |-> kind]

ItemWrappers == {"item.started", "item.updated", "item.completed"}

\* the item types of tool work without web_search
ToolItemsNoSearch == {"command_execution", "file_change", "mcp_tool_call"}

ToolItems == {"command_execution", "file_change", "mcp_tool_call", "web_search"}

normalizeThreadEvent(raw, stamp) ==
  IF ~raw.isObject THEN NoEvent
  ELSE IF raw.type = Undefined THEN NoEvent
  ELSE IF raw.type = "thread.started"
    THEN <<Event("progress", Content(Undefined, Undefined), stamp)>>
  ELSE IF raw.type = "turn.started"
    THEN <<Event("progress", Content("turn.started", Undefined), stamp)>>
  ELSE IF raw.type = "turn.completed"
    THEN <<Event("progress", Content("turn.completed", Undefined), stamp)>>
  ELSE IF raw.type = "turn.failed"
    THEN <<Event("error", Content("turn.failed", Undefined), stamp)>>
  ELSE IF raw.type = "error"
    THEN <<Event("error", Content(raw.kind, Undefined), stamp)>>
  ELSE IF raw.type \in ItemWrappers
    THEN IF raw.itemType = Undefined
           THEN <<Event("progress", Content(raw.type, Undefined), stamp)>>
         ELSE IF raw.itemType = "agent_message"
           THEN <<Event("message", Content(raw.type, raw.text), stamp)>>
         ELSE IF raw.itemType = "reasoning"
           THEN <<Event("progress", Content(raw.type, raw.text), stamp)>>
         ELSE IF raw.itemType \in ToolItems
           THEN <<Event(IF raw.type = "item.completed" THEN "tool_result"
                        ELSE "tool_call",
                        Content(raw.type, Undefined), stamp)>>
         ELSE IF raw.itemType = "todo_list"
           THEN <<Event("progress", Content(raw.type, Undefined), stamp)>>
         ELSE IF raw.itemType = "error"
           THEN <<Event("error", Content(raw.type, Undefined), stamp)>>
         ELSE <<Event("progress", Content(raw.type, Undefined), stamp)>>
  ELSE <<Event("progress", Content(raw.kind, Undefined), stamp)>>

----------------------------------------------------------------------------
(* Stdout text.  A chunk is a sequence of characters: LF, SP, or a letter.  *)
(* A JSON document of the child is written as a letter naming it followed   *)
(* by "}", so that a chunk boundary can fall inside a document.             *)

\* what JSON.parse returns for each document
Decode(d) ==
  CASE d = "T" -> Raw(TRUE, "turn.completed", Undefined, Undefined, Undefined)
    [] d = "M" -> Raw(TRUE, "item.completed", "agent_message", "hello", Undefined)
    [] d = "W" -> Raw(TRUE, "item.completed", "agent_message", "bye", Undefined)
    [] d = "U" -> Raw(TRUE, "task.note", Undefined, Undefined, "turn.completed")
    [] d = "N" -> Raw(FALSE, Undefined, Undefined, Undefined, Undefined)
    [] d = "C" -> Raw(TRUE, "item.started", "command_execution", Undefined, Undefined)
    [] d = "B" -> Raw(TRUE, "item.completed", "agent_message", " ", Undefined)
    [] d = "E" -> Raw(TRUE, "item.updated", "agent_message", Undefined, Undefined)

\* JSON.parse returns <<value>>, or <<>> when it throws a SyntaxError
SyntaxError == <<>>

RECURSIVE DropSpaces(_)
DropSpaces(s) ==
  IF s = <<>> THEN <<>>
  ELSE IF Head(s) = SP THEN DropSpaces(Tail(s))
  ELSE <<Head(s)>> \o DropSpaces(Tail(s))

\* JSON.parse(line): blanks between the tokens of a document are insignificant
JsonParse(line) ==
  LET t == DropSpaces(line)
  IN IF Len(t) = 2 /\ t[1] \in ({"T", "M", "W", "U", "N", "C", "B", "E"}) /\ t[2] = "}" THEN <<Decode(t[1])>>
     ELSE SyntaxError

\* String.prototype.indexOf: 0 stands for -1, positions count from 1
IndexOf(s, c) ==
  IF \E i \in 1..Len(s) : s[i] = c
  THEN CHOOSE i \in 1..Len(s) : s[i] = c /\ \A k \in 1..(i - 1) : s[k] # c
  ELSE 0

RECURSIVE TrimEnd(_)
TrimEnd(s) ==
  IF s # <<>> /\ s[Len(s)] = SP THEN TrimEnd(SubSeq(s, 1, Len(s) - 1)) ELSE s

\* String.prototype.trim
Trim(s) == TrimEnd(SkipSpace(s))

ParseFailureEvent(stamp) ==
  Event("error",
        [Content(Undefined, Undefined) EXCEPT
           !.message = "Failed to parse codex JSONL event"],
        stamp)

\* the last two entries of a vector, the way appendTail keeps the output tails
LastTwo(events) == SubSeq(events, Max(1, Len(events) - 1), Len(events))

\* IngestLine with the event vector kept to its last two entries
IngestLineWindowed(job, line, stamp) ==
  LET parsed == JsonParse(line)
  IN IF parsed = SyntaxError
       THEN [job EXCEPT !.events = LastTwo(Append(@, ParseFailureEvent(stamp)))]
     ELSE LET result == normalizeThreadEvent(parsed[1], stamp)
              normalized == result[1]
          IN IF result = NoEvent THEN job
             ELSE [job EXCEPT
                     !.events = LastTwo(Append(@, normalized)),
                     !.lastAgentMessage =
                        IF normalized.type = "message"
                           /\ normalized.content.text # Undefined
                        THEN normalized.content.text ELSE @,
                     !.turnCompleted =
                        IF normalized.type = "progress"
                           /\ normalized.content.kind = "turn.completed"
                        THEN TRUE ELSE @]

\* IngestLine failing the job on a line that is no JSON
IngestLineFailing(job, line, stamp) ==
  LET parsed == JsonParse(line)
  IN IF parsed = SyntaxError
       THEN [job EXCEPT !.events = Append(@, ParseFailureEvent(stamp)),
                        !.status = "failed"]
     ELSE LET result == normalizeThreadEvent(parsed[1], stamp)
              normalized == result[1]
          IN IF result = NoEvent THEN job
             ELSE [job EXCEPT
                     !.events = Append(@, normalized),
                     !.lastAgentMessage =
                        IF normalized.type = "message"
                           /\ normalized.content.text # Undefined
                        THEN normalized.content.text ELSE @,
                     !.turnCompleted =
                        IF normalized.type = "progress"
                           /\ normalized.content.kind = "turn.completed"
                        THEN TRUE ELSE @]

\* the body of consumeStdoutJsonl's try block for one non-empty line
IngestLine(job, line, stamp) ==
  LET parsed == JsonParse(line)
  IN IF parsed = SyntaxError
       THEN [job EXCEPT !.events = Append(@, ParseFailureEvent(stamp))]
     ELSE LET result == normalizeThreadEvent(parsed[1], stamp)
              normalized == result[1]
          IN IF result = NoEvent THEN job
             ELSE [job EXCEPT
                     !.events = Append(@, normalized),
                     !.lastAgentMessage =
                        IF normalized.type = "message"
                           /\ normalized.content.text # Undefined
                        THEN normalized.content.text ELSE @,
                     !.turnCompleted =
                        IF normalized.type = "progress"
                           /\ normalized.content.kind = "turn.completed"
                        THEN TRUE ELSE @]

\* the while loop of consumeStdoutJsonl over job.stdoutRemainder
RECURSIVE ConsumeLines(_, _)
ConsumeLines(job, stamp) ==
  LET idx == IndexOf(job.stdoutRemainder, LF)
  IN IF idx = 0 THEN job
     ELSE LET line == Trim(SubSeq(job.stdoutRemainder, 1, idx - 1))
              rest == [job EXCEPT !.stdoutRemainder =
                         SubSeq(@, idx + 1, Len(@))]
          IN IF line = <<>> THEN ConsumeLines(rest, stamp)
             ELSE ConsumeLines(IngestLine(rest, line, stamp), stamp)

\* consumeStdoutJsonl framing each chunk by itself: what the chunk before left
\* is dropped
consumeStdoutJsonlByChunk(job, chunk, stamp) ==
  ConsumeLines([job EXCEPT !.stdoutRemainder = chunk], stamp)

consumeStdoutJsonl(job, chunk, stamp) ==
  ConsumeLines([job EXCEPT !.stdoutRemainder = @ \o chunk], stamp)

----------------------------------------------------------------------------
(* Output tails.  A string is a sequence of UTF-16 code units: "a" is an     *)
(* ASCII character, "e2" a character of two UTF-8 bytes, "e3" one of three,  *)
(* "H" and "L" the high and low surrogate of a character of four; every      *)
(* other unit of the model (a document, "}", a blank, a line feed) is ASCII. *)

MAX_OUTPUT_BUFFER_BYTES == MaxTailBytes

\* Buffer.byteLength(s, 'utf8'): a surrogate pair takes four bytes, a
\* surrogate without its partner is encoded as U+FFFD, three bytes
RECURSIVE ByteLength(_)
ByteLength(s) ==
  IF s = <<>> THEN 0
  ELSE IF Len(s) >= 2 /\ s[1] = "H" /\ s[2] = "L"
       THEN 4 + ByteLength(SubSeq(s, 3, Len(s)))
  ELSE (CASE s[1] \in {"H", "L", "e3"} -> 3
          [] s[1] = "e2" -> 2
          [] OTHER -> 1) + ByteLength(Tail(s))

\* combined.slice(start), start counting from 0
Slice(combined, start) == SubSeq(combined, start + 1, Len(combined))

\* the while loop of appendTail
RECURSIVE SliceWithin(_, _, _)
SliceWithin(combined, start, maxBytes) ==
  IF ByteLength(Slice(combined, start)) > maxBytes /\ start < Len(combined)
  THEN SliceWithin(combined,
                   start + ((Len(combined) - start) + 9) \div 10, maxBytes)
  ELSE Slice(combined, start)

\* appendTail cutting by code units only, without the loop
appendTailByUnits(current, chunk, maxBytes) ==
  IF Len(chunk) = 0 THEN current
  ELSE LET combined == current \o chunk
       IN IF ByteLength(combined) <= maxBytes THEN combined
          ELSE Slice(combined, Max(0, Len(combined) - maxBytes))

appendTail(current, chunk, maxBytes) ==
  IF Len(chunk) = 0 THEN current
  ELSE LET combined == current \o chunk
       IN IF ByteLength(combined) <= maxBytes THEN combined
          ELSE SliceWithin(combined, Max(0, Len(combined) - maxBytes), maxBytes)

----------------------------------------------------------------------------
(* Job records *)

SpawnedEvent(stamp) == Event("progress", Content("spawned", Undefined), stamp)

\* the record spawnJob builds, with the `spawned` event it pushes before it
\* returns; spawnOk tells whether child_process.spawn could start the binary
NewRecord(jobId, cmdArgs, spawnMetadata, spawnOk, stamp) ==
  [jobId |-> jobId,
   status |-> "running",
   startedAt |-> stamp,
   finishedAt |-> UndefinedNum,
   exitCode |-> UndefinedNum,
   exitSignal |-> Undefined,
   cancelRequested |-> FALSE,
   child |-> [phase |-> IF spawnOk THEN "live" ELSE "nospawn", signal |-> "none",
              args |-> cmdArgs],
   spawnMetadata |-> spawnMetadata,
   events |-> <<SpawnedEvent(stamp)>>,
   lastAgentMessage |-> Undefined,
   turnCompleted |-> FALSE,
   completion |-> FALSE,
   stdoutTail |-> <<>>,
   stderrTail |-> <<>>,
   stdoutRemainder |-> <<>>]

JobIds == 1..Len(jobs)

RunningIn(reg) == Cardinality({i \in 1..Len(reg) : reg[i].status = "running"})

\* the admission check counting every record, terminal ones included
AdmittedCountingAll(reg) == ~(Len(reg) >= parseMaxJobsFromEnv)

\* the admission check with > in place of >=
AdmittedOffByOne(reg) == ~(RunningIn(reg) > parseMaxJobsFromEnv)

\* spawnJob's admission check: true when the spawn goes ahead
Admitted(reg) == ~(RunningIn(reg) >= parseMaxJobsFromEnv)

\* spawnJob: the registry after the call; unchanged when the call throws
\* 'Too many concurrent jobs'
spawnJob(reg, cmdArgs, spawnMetadata, spawnOk, stamp) ==
  IF ~Admitted(reg) THEN reg
  ELSE Append(reg, NewRecord(Len(reg) + 1, cmdArgs, spawnMetadata, spawnOk, stamp))

\* the argv both spawn functions build from the options they settled on
CmdArgs(model, reasoningEffort, sandbox, useFullAuto, workingDirectory, prompt) ==
  <<"exec", "--json">>
  \o (IF Truthy(model) THEN <<"--model", model>> ELSE <<>>)
  \o (IF Truthy(reasoningEffort) THEN <<"-c", EffortArg(reasoningEffort)>> ELSE <<>>)
  \o (IF Truthy(sandbox) THEN <<"--sandbox", sandbox>> ELSE <<>>)
  \o (IF useFullAuto THEN <<"--full-auto">> ELSE <<>>)
  \o (IF Truthy(workingDirectory) THEN <<"-C", workingDirectory>> ELSE <<>>)
  \o <<"--skip-git-repo-check", prompt>>

Effective(model, reasoningEffort, sandbox, useFullAuto, workingDirectory) ==
  [model |-> model, reasoningEffort |-> reasoningEffort, sandbox |-> sandbox,
   useFullAuto |-> useFullAuto, workingDirectory |-> workingDirectory]

\* spawnCodexJob with the environment's default sandbox taken as it is
spawnCodexJobEnvUnchecked(reg, args, spawnOk, stamp) ==
  LET sandboxFromEnv ==
        IF envDefaultSandbox # NoString /\ envDefaultSandbox[1] # ""
        THEN envDefaultSandbox[1] ELSE Undefined
      effectiveSandbox ==
        IF args.sandbox # Undefined THEN args.sandbox
        ELSE IF sandboxFromEnv # Undefined THEN sandboxFromEnv
        ELSE IF IsTrue(args.fullAuto) THEN Undefined
        ELSE "workspace-write"
      effectiveUseFullAuto == IsTrue(args.fullAuto) /\ ~Truthy(effectiveSandbox)
  IN spawnJob(reg,
              CmdArgs(args.model, args.reasoningEffort, effectiveSandbox,
                      effectiveUseFullAuto, args.workingDirectory, args.prompt),
              [requested |-> args,
               effective |-> Effective(args.model, args.reasoningEffort,
                                       effectiveSandbox, effectiveUseFullAuto,
                                       args.workingDirectory),
               label |-> args.label],
              spawnOk, stamp)

\* spawnCodexJob passing --full-auto whenever fullAuto is requested
spawnCodexJobFullAutoKept(reg, args, spawnOk, stamp) ==
  LET sandboxFromEnv ==
        IF envDefaultSandbox # NoString /\ envDefaultSandbox[1] \in SandboxMode
        THEN envDefaultSandbox[1] ELSE Undefined
      effectiveSandbox ==
        IF args.sandbox # Undefined THEN args.sandbox
        ELSE IF sandboxFromEnv # Undefined THEN sandboxFromEnv
        ELSE IF IsTrue(args.fullAuto) THEN Undefined
        ELSE "workspace-write"
      effectiveUseFullAuto == IsTrue(args.fullAuto)
  IN spawnJob(reg,
              CmdArgs(args.model, args.reasoningEffort, effectiveSandbox,
                      effectiveUseFullAuto, args.workingDirectory, args.prompt),
              [requested |-> args,
               effective |-> Effective(args.model, args.reasoningEffort,
                                       effectiveSandbox, effectiveUseFullAuto,
                                       args.workingDirectory),
               label |-> args.label],
              spawnOk, stamp)

\* spawnCodexJob: args holds prompt, model, reasoningEffort, sandbox, fullAuto,
\* workingDirectory and label
spawnCodexJob(reg, args, spawnOk, stamp) ==
  LET sandboxFromEnv ==
        IF envDefaultSandbox # NoString /\ envDefaultSandbox[1] \in SandboxMode
        THEN envDefaultSandbox[1] ELSE Undefined
      effectiveSandbox ==
        IF args.sandbox # Undefined THEN args.sandbox
        ELSE IF sandboxFromEnv # Undefined THEN sandboxFromEnv
        ELSE IF IsTrue(args.fullAuto) THEN Undefined
        ELSE "workspace-write"
      effectiveUseFullAuto == IsTrue(args.fullAuto) /\ ~Truthy(effectiveSandbox)
  IN spawnJob(reg,
              CmdArgs(args.model, args.reasoningEffort, effectiveSandbox,
                      effectiveUseFullAuto, args.workingDirectory, args.prompt),
              [requested |-> args,
               effective |-> Effective(args.model, args.reasoningEffort,
                                       effectiveSandbox, effectiveUseFullAuto,
                                       args.workingDirectory),
               label |-> args.label],
              spawnOk, stamp)

\* the argv of spawnCodexJobWithEffectiveOptions with -C pushed before --sandbox
CmdArgsFromEffectiveDirFirst(effective, sandbox, useFullAuto, prompt) ==
  LET model == IF Truthy(effective.model) THEN <<"--model", effective.model>> ELSE <<>>
      effort == IF Truthy(effective.reasoningEffort)
                THEN <<"-c", EffortArg(effective.reasoningEffort)>> ELSE <<>>
      box == IF Truthy(sandbox) THEN <<"--sandbox", sandbox>> ELSE <<>>
      auto == IF useFullAuto THEN <<"--full-auto">> ELSE <<>>
      dir == IF Truthy(effective.workingDirectory)
             THEN <<"-C", effective.workingDirectory>> ELSE <<>>
  IN <<"exec", "--json">> \o model \o effort \o dir \o box \o auto
     \o <<"--skip-git-repo-check">> \o <<prompt>>

\* the argv spawnCodexJobWithEffectiveOptions builds
CmdArgsFromEffective(effective, sandbox, useFullAuto, prompt) ==
  LET model == IF Truthy(effective.model) THEN <<"--model", effective.model>> ELSE <<>>
      effort == IF Truthy(effective.reasoningEffort)
                THEN <<"-c", EffortArg(effective.reasoningEffort)>> ELSE <<>>
      box == IF Truthy(sandbox) THEN <<"--sandbox", sandbox>> ELSE <<>>
      auto == IF useFullAuto THEN <<"--full-auto">> ELSE <<>>
      dir == IF Truthy(effective.workingDirectory)
             THEN <<"-C", effective.workingDirectory>> ELSE <<>>
  IN <<"exec", "--json">> \o model \o effort \o box \o auto \o dir
     \o <<"--skip-git-repo-check">> \o <<prompt>>

\* spawnCodexJobWithEffectiveOptions: args holds prompt, effective and label
spawnCodexJobWithEffectiveOptions(reg, args, spawnOk, stamp) ==
  LET sandbox == args.effective.sandbox
      useFullAuto == args.effective.useFullAuto /\ ~Truthy(sandbox)
  IN spawnJob(reg,
              CmdArgsFromEffective(args.effective, sandbox, useFullAuto, args.prompt),
              [requested |->
                 SpawnArgs(args.prompt, args.effective.model,
                           args.effective.reasoningEffort, sandbox, Bool(useFullAuto),
                           args.effective.workingDirectory, args.label),
               effective |-> Effective(args.effective.model,
                                       args.effective.reasoningEffort, sandbox,
                                       useFullAuto, args.effective.workingDirectory),
               label |-> args.label],
              spawnOk, stamp)

\* getSpawnMetadata: the copy it returns drops a label that is empty
getSpawnMetadata(job) ==
  [requested |-> job.spawnMetadata.requested,
   effective |-> job.spawnMetadata.effective,
   label |-> IF Truthy(job.spawnMetadata.label) THEN job.spawnMetadata.label
             ELSE Undefined]

\* the classification with the exit code looked at first
CloseStatusExitFirst(job, code) ==
  IF code = Num(0) THEN "done"
  ELSE IF job.cancelRequested /\ ~job.turnCompleted THEN "canceled"
  ELSE "failed"

\* the classification with cancellation authoritative even after a completed
\* turn
CloseStatusCancelFirst(job, code) ==
  IF job.cancelRequested THEN "canceled"
  ELSE IF code = Num(0) THEN "done"
  ELSE "failed"

\* the status decided by the 'close' callback
CloseStatus(job, code) ==
  IF job.cancelRequested /\ ~job.turnCompleted THEN "canceled"
  ELSE IF code = Num(0) THEN "done"
  ELSE "failed"

FinalEvent(status, code, lastMessage, stamp) ==
  Event("final",
        [Content(Undefined, Undefined) EXCEPT !.status = status, !.exitCode = code,
                                              !.lastMessage = lastMessage],
        stamp)

\* the 'close' callback without resolveCompletion
closeHandlerUnresolved(job, code, signal, stamp) ==
  LET status == CloseStatus(job, code)
  IN [job EXCEPT
        !.exitCode = code,
        !.exitSignal = signal,
        !.finishedAt = Num(stamp),
        !.status = status,
        !.events = Append(@, FinalEvent(status, code, job.lastAgentMessage, stamp))]

\* the 'close' callback ingesting what is left in stdoutRemainder as a last
\* line before it classifies
closeHandlerFlushing(job, code, signal, stamp) ==
  LET flushed == consumeStdoutJsonl(job, <<LF>>, stamp)
      status == CloseStatus(flushed, code)
  IN [flushed EXCEPT
        !.exitCode = code,
        !.exitSignal = signal,
        !.finishedAt = Num(stamp),
        !.status = status,
        !.events = Append(@, FinalEvent(status, code, flushed.lastAgentMessage, stamp)),
        !.completion = TRUE]

\* child.on('close', ...)
closeHandler(job, code, signal, stamp) ==
  LET status == CloseStatus(job, code)
  IN [job EXCEPT
        !.exitCode = code,
        !.exitSignal = signal,
        !.finishedAt = Num(stamp),
        !.status = status,
        !.events = Append(@, FinalEvent(status, code, job.lastAgentMessage, stamp)),
        !.completion = TRUE]

ChildErrorEvent(stamp) ==
  Event("error", [Content(Undefined, Undefined) EXCEPT !.message = "Error"], stamp)

\* the 'error' callback leaving the status for the 'close' callback to set
errorHandlerStatusLater(job, stamp) ==
  [job EXCEPT
     !.finishedAt = Num(stamp),
     !.events = Append(@, ChildErrorEvent(stamp)),
     !.completion = TRUE]

\* child.on('error', ...)
errorHandler(job, stamp) ==
  [job EXCEPT
     !.status = IF job.cancelRequested THEN "canceled" ELSE "failed",
     !.finishedAt = Num(stamp),
     !.events = Append(@, ChildErrorEvent(stamp)),
     !.completion = TRUE]

\* cancel without its check of the status
cancelUnguarded(job, force, delivered, stamp) ==
  LET flagged == [job EXCEPT !.cancelRequested = TRUE]
  IN IF delivered
       THEN [flagged EXCEPT !.child.signal = IF force THEN "SIGKILL" ELSE "SIGTERM"]
     ELSE errorHandler(flagged, stamp)

\* cancel(jobId, force) on a record: the flag, then child.kill.  ChildProcess.kill
\* delivers the signal, or (when the process cannot be signalled) emits 'error'
\* on the child before it returns, which runs errorHandler inside cancel.
cancel(job, force, delivered, stamp) ==
  IF job.status # "running" THEN job
  ELSE LET flagged == [job EXCEPT !.cancelRequested = TRUE]
       IN IF delivered
            THEN [flagged EXCEPT !.child.signal =
                    IF force THEN "SIGKILL" ELSE "SIGTERM"]
          ELSE errorHandler(flagged, stamp)

\* cancel reporting success whatever the status
cancelSuccessAlways(job) == TRUE

\* the `success` cancel returns
cancelSuccess(job) == job.status = "running"

\* waitForExit looking at waitMs before it looks at the status
waitForExitMsFirst(job, waitMs) ==
  IF Max(0, waitMs) = 0 THEN <<TRUE, FALSE>>
  ELSE IF job.status # "running" THEN <<TRUE, TRUE>>
  ELSE <<FALSE, FALSE>>

\* waitForExit up to its await: <<whether it returns at once, exited>>
waitForExit(job, waitMs) ==
  IF job.status # "running" THEN <<TRUE, TRUE>>
  ELSE IF Max(0, waitMs) = 0 THEN <<TRUE, FALSE>>
  ELSE <<FALSE, FALSE>>

\* an identifier no job has
UnknownId == 0

Has(reg, id) == id \in 1..Len(reg)

\* jobIds.filter((id) => !this.jobs.has(id)) and its complement
\* the list of missing identifiers taken to be the whole input
MissingJobIdsUnfiltered(reg, jobIds) == jobIds

MissingJobIds(reg, jobIds) == SelectSeq(jobIds, LAMBDA id : ~Has(reg, id))
KnownJobIds(reg, jobIds) == SelectSeq(jobIds, LAMBDA id : Has(reg, id))

\* CodexWaitAnyResult: completedJobId is <<>> for null and <<id>> otherwise;
\* missingJobIds is <<>> when the property is left out and <<ids>> otherwise
WaitAnyResult(completedJobId, timedOut, missingJobIds) ==
  [completedJobId |-> completedJobId, timedOut |-> timedOut,
   missingJobIds |-> IF Len(missingJobIds) > 0 THEN <<missingJobIds>> ELSE <<>>]

\* knownJobIds.find(...): the positions of the identifiers of jobs that are
\* not running
\* the search for an already finished job without its look at the status
ImmediateAnyStatus(reg, known) == 1..Len(known)

\* waitAny's search for a known job that is not running: the positions of such
\* jobs in the list of known identifiers
Immediate(reg, known) ==
  {i \in 1..Len(known) : reg[known[i]].status # "running"}

\* waitAny up to its await: <<whether it returns at once, the result>>
waitAny(reg, jobIds) ==
  LET missing == MissingJobIds(reg, jobIds)
      known == KnownJobIds(reg, jobIds)
      immediate == Immediate(reg, known)
  IN IF Len(known) = 0 THEN <<TRUE, WaitAnyResult(<<>>, FALSE, missing)>>
     ELSE IF immediate # {}
       THEN <<TRUE,
              WaitAnyResult(<<known[CHOOSE i \in immediate :
                                      \A k \in immediate : i <= k]>>,
                            FALSE, missing)>>
     ELSE <<FALSE, WaitAnyResult(<<>>, FALSE, missing)>>

\* waitAny after its await: winner is <<>> when the timer won the race and
\* <<id>> when the completion of job id did
waitAnyResume(pending, winner) ==
  [pending EXCEPT !.completedJobId = winner, !.timedOut = (winner = <<>>)]

\* requireJob falling back on the first job of the registry
requireJobOrFirst(reg, jobId) ==
  IF Has(reg, jobId) THEN <<reg[jobId]>>
  ELSE IF reg # <<>> THEN <<reg[1]>>
  ELSE <<>>

\* requireJob: <<the record>>, or <<>> when it throws 'Unknown jobId'
requireJob(reg, jobId) == IF Has(reg, jobId) THEN <<reg[jobId]>> ELSE <<>>

getStatus(job) ==
  [jobId |-> job.jobId, status |-> job.status, startedAt |-> job.startedAt,
   finishedAt |-> job.finishedAt, exitCode |-> job.exitCode]

\* getResult; a tail is <<>> when it is returned as undefined (it was empty),
\* <<tail>> otherwise
getResult(job) ==
  [jobId |-> job.jobId, status |-> job.status, startedAt |-> job.startedAt,
   finishedAt |-> job.finishedAt, exitCode |-> job.exitCode,
   finalMessage |-> job.lastAgentMessage,
   stdoutTail |-> IF job.stdoutTail = <<>> THEN <<>> ELSE <<job.stdoutTail>>,
   stderrTail |-> IF job.stderrTail = <<>> THEN <<>> ELSE <<job.stderrTail>>]

\* getEventTail taking the entries from the front of the filtered events
getEventTailFromFront(job, maxEvents, allowedTypes) ==
  LET limit == Max(0, maxEvents)
      filtered == IF allowedTypes = <<>> THEN job.events
                  ELSE SelectSeq(job.events, LAMBDA e : e.type \in allowedTypes[1])
  IN IF limit = 0 THEN <<>>
     ELSE SubSeq(filtered, 1, Min(limit, Len(filtered)))

\* getEventTail; allowedTypes is <<>> when it is not passed, <<types>> otherwise
getEventTail(job, maxEvents, allowedTypes) ==
  LET limit == Max(0, maxEvents)
      filtered == IF allowedTypes = <<>> THEN job.events
                  ELSE SelectSeq(job.events, LAMBDA e : e.type \in allowedTypes[1])
  IN IF limit = 0 THEN <<>>
     ELSE SubSeq(filtered, Max(0, Len(filtered) - limit) + 1, Len(filtered))

\* String(exitCode): the characters of the number, or null
ExitCodeString(exitCode) ==
  IF exitCode = NullNum THEN <<"null">>
  ELSE IF exitCode.val < 0 THEN <<"-">> \o StringOf(0 - exitCode.val)
  ELSE StringOf(exitCode.val)

\* formatMissingFinalMessage without the exit line
formatMissingFinalMessageNoExit(result) ==
  CASE result.status = "canceled" ->
         <<"Job was canceled before producing a final assistant message.",
           "status:", "canceled", "Tip:">>
    [] result.status = "failed" ->
         <<"Job failed before producing a final assistant message.",
           "status:", "failed", "Tip:">>
    [] result.status = "done" ->
         <<"Job completed but produced no final assistant message.",
           "status:", "done">>
    [] result.status = "running" -> <<>>

\* formatMissingFinalMessage: the text as its words; of each template the
\* sentence that tells it from the others, the status line and the exit line
formatMissingFinalMessage(result) ==
  LET exit == IF result.exitCode = UndefinedNum THEN <<>>
              ELSE <<"exitCode:">> \o ExitCodeString(result.exitCode)
  IN CASE result.status = "canceled" ->
            <<"Job was canceled before producing a final assistant message.",
              "status:", "canceled">> \o exit \o <<"Tip:">>
       [] result.status = "failed" ->
            <<"Job failed before producing a final assistant message.",
              "status:", "failed">> \o exit \o <<"Tip:">>
       [] result.status = "done" ->
            <<"Job completed but produced no final assistant message.",
              "status:", "done">> \o exit
       [] result.status = "running" -> <<>>

\* text.trim().length = 0, for the texts the children of the model print
Blank(text) == text \in {"", " "}

\* codex_result with the finalMessage view returning the fallback for every
\* job that is not running
finalMessageViewFallbackFirst(result) ==
  IF result.status # "running" /\ formatMissingFinalMessage(result) # <<>>
  THEN formatMissingFinalMessage(result)
  ELSE IF result.finalMessage # Undefined /\ ~Blank(result.finalMessage)
    THEN <<result.finalMessage>>
  ELSE <<>>

\* codex_result with the finalMessage view: the text as its words, a message
\* being one word
finalMessageView(result) ==
  IF result.finalMessage # Undefined /\ ~Blank(result.finalMessage)
  THEN <<result.finalMessage>>
  ELSE IF result.status # "running" /\ formatMissingFinalMessage(result) # <<>>
    THEN formatMissingFinalMessage(result)
  ELSE <<>>

\* getEvents returning the start of the page as nextCursor
getEventsStartCursor(job, cursor, maxEvents) ==
  LET start == IF cursor = NoString \/ cursor = Str(<<>>) THEN Num(0)
               ELSE ParseInt(cursor[1])
      safeStart == IF start.tag = "num" /\ start.val >= 0 THEN start.val ELSE 0
      endExclusive == Min(Len(job.events), safeStart + Max(1, maxEvents))
  IN [events |-> SubSeq(job.events, safeStart + 1, endExclusive),
      nextCursor |-> StringOf(safeStart),
      done |-> job.status # "running"]

\* getEvents returning a nextCursor one past the end of the page
getEventsSkipOne(job, cursor, maxEvents) ==
  LET start == IF cursor = NoString \/ cursor = Str(<<>>) THEN Num(0)
               ELSE ParseInt(cursor[1])
      safeStart == IF start.tag = "num" /\ start.val >= 0 THEN start.val ELSE 0
      endExclusive == Min(Len(job.events), safeStart + Max(1, maxEvents))
  IN [events |-> SubSeq(job.events, safeStart + 1, endExclusive),
      nextCursor |-> StringOf(endExclusive + 1),
      done |-> job.status # "running"]

\* getEvents on a record
getEvents(job, cursor, maxEvents) ==
  LET start == IF cursor = NoString \/ cursor = Str(<<>>) THEN Num(0)
               ELSE ParseInt(cursor[1])
      safeStart == IF start.tag = "num" /\ start.val >= 0 THEN start.val ELSE 0
      endExclusive == Min(Len(job.events), safeStart + Max(1, maxEvents))
  IN [events |-> SubSeq(job.events, safeStart + 1, endExclusive),
      nextCursor |-> StringOf(endExclusive),
      done |-> job.status # "running"]

----------------------------------------------------------------------------
(* Inputs *)

\* (code, signal) pairs of a 'close' of a started process
CloseInputs ==
  {<<Num(0), "null">>, <<Num(1), "null">>, <<Num(137), "null">>,
   <<NullNum, "SIGTERM">>, <<NullNum, "SIGKILL">>}

\* the 'close' that follows a failed spawn carries the negative errno (ENOENT)
SpawnFailureClose == <<Num(0 - 2), "null">>

MaxEventsInputs == {0, 1, 2}

\* the arguments of a spawn that names a prompt and nothing else
PlainArgs ==
  SpawnArgs("prompt", Undefined, Undefined, Undefined, NoBool, Undefined, Undefined)

\* arguments of codex_spawn and of the jobs of codex_spawn_group in the
\* options specification
SpawnArgInputs ==
  {SpawnArgs("prompt", model, reasoningEffort, sandbox, fullAuto, workingDirectory,
             label) :
     model \in {Undefined, "gpt-5"}, reasoningEffort \in {Undefined, "low"},
     sandbox \in {Undefined} \cup SandboxMode,
     fullAuto \in {NoBool, Bool(TRUE), Bool(FALSE)},
     workingDirectory \in {Undefined, "/work"}, label \in {Undefined, "", "a"}}

----------------------------------------------------------------------------
(* Initial state *)

\* codex_interrupt calls in flight at a time; a slot whose call has returned
\* or thrown takes the next call
CallIds == {1}

IdleCall ==
  [pc |-> "idle", jobId |-> 0, overrides |-> NoOverrides,
   parsed |-> [includeEventTail |-> NoBool, tailMaxEvents |-> UndefinedNum],
   tailMaxEvents |-> 0, tail |-> <<>>,
   previousStatus |-> Undefined,
   respawned |-> FALSE, newJobId |-> 0, reason |-> Undefined]

NoRead ==
  [jobId |-> 0, asked |-> 0, count |-> 0, short |-> FALSE,
   nextCursor |-> <<>>, done |-> FALSE, first |-> 0, got |-> <<>>,
   chained |-> FALSE, fromZero |-> FALSE]

Init ==
  /\ jobs = <<>>
  /\ clock = 0
  /\ envMaxJobs \in {NoString, Str(<<"1">>), Str(<<"2">>), Str(<<"0">>), Str(<<"x">>)}
  /\ envDefaultSandbox = NoString
  /\ reader = NoRead
  /\ calls = [c \in CallIds |-> IdleCall]

----------------------------------------------------------------------------
(* Actions of the job manager *)

\* codex_spawn: CodexSpawnToolHandler.execute -> spawnCodexJob -> spawnJob
SpawnCodexJob(args, spawnOk) ==
  /\ jobs' = spawnCodexJob(jobs, [args EXCEPT !.label = Undefined], spawnOk, nowIso)
  /\ UNCHANGED <<clock, envMaxJobs, envDefaultSandbox, reader, calls>>

\* the stdout 'data' callback of job j
StdoutData(j, chunk) ==
  /\ jobs[j].child.phase = "live"
  /\ jobs' = [jobs EXCEPT
                ![j] = consumeStdoutJsonl(
                         [@ EXCEPT !.stdoutTail =
                            appendTail(@, chunk, MAX_OUTPUT_BUFFER_BYTES)],
                         chunk, nowIso)]
  /\ UNCHANGED <<clock, envMaxJobs, envDefaultSandbox, reader, calls>>

\* the stderr 'data' callback of job j
StderrData(j, chunk) ==
  /\ jobs[j].child.phase = "live"
  /\ jobs' = [jobs EXCEPT ![j].stderrTail =
                appendTail(@, chunk, MAX_OUTPUT_BUFFER_BYTES)]
  /\ UNCHANGED <<clock, envMaxJobs, envDefaultSandbox, reader, calls>>

\* the 'close' callback of job j
ChildClose(j, code, signal) ==
  /\ \/ jobs[j].child.phase = "live" /\ <<code, signal>> \in CloseInputs
     \/ jobs[j].child.phase = "failing" /\ <<code, signal>> = SpawnFailureClose
  /\ jobs' = [jobs EXCEPT
                ![j] = [closeHandler(@, code, signal, nowIso) EXCEPT
                          !.child.phase = "closed"]]
  /\ UNCHANGED <<clock, envMaxJobs, envDefaultSandbox, reader, calls>>

\* the 'error' callback of job j for a failed spawn
ChildSpawnError(j) ==
  /\ jobs[j].child.phase = "nospawn"
  /\ jobs' = [jobs EXCEPT
                ![j] = [errorHandler(@, nowIso) EXCEPT !.child.phase = "failing"]]
  /\ UNCHANGED <<clock, envMaxJobs, envDefaultSandbox, reader, calls>>

\* codex_cancel on job j
Cancel(j, force, delivered) ==
  /\ jobs' = [jobs EXCEPT ![j] = cancel(@, force, delivered, nowIso)]
  /\ UNCHANGED <<clock, envMaxJobs, envDefaultSandbox, reader, calls>>

\* time passes
Tick ==
  /\ clock < MaxClock
  /\ clock' = clock + 1
  /\ UNCHANGED <<jobs, envMaxJobs, envDefaultSandbox, reader, calls>>

----------------------------------------------------------------------------
(* The reader: a coordinator calling codex_events on job j.  Of its last     *)
(* call it keeps: `asked`, the cursor it passed when that is a non-negative  *)
(* integer (0 otherwise); `count`, the length of the page; `short`, whether  *)
(* the page held fewer than max(1, maxEvents) events; nextCursor and done as *)
(* returned; `first`, the position (from 0) of the first event of the page;  *)
(* `chained`, whether the call used the nextCursor of the call before.  `got`*)
(* is the concatenation of the pages since the reader last chose a cursor of *)
(* its own, and fromZero tells that this cursor was 0.                       *)

CursorValue(cursor) ==
  LET v == IF cursor = NoString THEN Num(0) ELSE ParseInt(cursor[1])
  IN IF v.tag = "num" /\ v.val >= 0 THEN v.val ELSE 0

Response(j, cursor, maxEvents, got, chained, fromZero) ==
  LET out == getEvents(jobs[j], cursor, maxEvents)
  IN [jobId |-> j, asked |-> CursorValue(cursor),
      count |-> Len(out.events),
      short |-> Len(out.events) < Max(1, maxEvents),
      nextCursor |-> out.nextCursor, done |-> out.done,
      first |-> ParseInt(out.nextCursor).val - Len(out.events),
      got |-> got \o out.events, chained |-> chained, fromZero |-> fromZero]

\* a call with a cursor of the coordinator's choosing
GetEventsAt(j, cursor, maxEvents) ==
  /\ reader' = Response(j, cursor, maxEvents, <<>>, FALSE, CursorValue(cursor) = 0)
  /\ UNCHANGED <<jobs, clock, envMaxJobs, envDefaultSandbox, calls>>

\* a call with the nextCursor the previous call returned
GetEventsNext(maxEvents) ==
  /\ reader.jobId \in JobIds
  /\ reader' = Response(reader.jobId, Str(reader.nextCursor), maxEvents,
                        reader.got, TRUE, reader.fromZero)
  /\ UNCHANGED <<jobs, clock, envMaxJobs, envDefaultSandbox, calls>>

----------------------------------------------------------------------------
(* The single-job specification: one job, its child, a canceller and the     *)
(* clock.                                                                    *)

\* callbacks queued with process.nextTick run before anything else
NextTickPending == \E j \in JobIds : jobs[j].child.phase = "nospawn"

NextTick == \E j \in JobIds : ChildSpawnError(j)

JobSpawn == \E spawnOk \in BOOLEAN : jobs = <<>> /\ SpawnCodexJob(PlainArgs, spawnOk)

AnyClose == \E j \in JobIds, cs \in CloseInputs \cup {SpawnFailureClose} :
              ChildClose(j, cs[1], cs[2])

AnyCancel == \E j \in JobIds, force \in BOOLEAN, delivered \in BOOLEAN :
               Cancel(j, force, delivered)

NextJob ==
  \/ NextTick
  \/ ~NextTickPending /\ JobSpawn
  \/ ~NextTickPending /\ (\E j \in JobIds, chunk \in {<<"T", "}", LF>>, <<"M", "}", LF>>, <<"x", LF>>, <<"W">>, <<"}", LF>>, <<LF>>, <<"U", "}", LF>>, <<"T", "}">>} :
                            /\ Len(jobs[j].events) < MaxIngest
                            /\ Len(jobs[j].stdoutRemainder) + Len(chunk) <= MaxRemainder + IndexOf(chunk, LF)
                            /\ StdoutData(j, chunk))
  \/ ~NextTickPending /\ AnyClose
  \/ ~NextTickPending /\ AnyCancel
  \/ ~NextTickPending /\ Tick

InitJob == Init /\ envMaxJobs = NoString

SpecJob == InitJob /\ [][NextJob]_vars

----------------------------------------------------------------------------
(* The reader specification: one job, its child, a canceller and a reader    *)
(* of its events; the clock stands still.                                    *)

NextReader ==
  \/ NextTick
  \/ ~NextTickPending /\ JobSpawn
  \/ ~NextTickPending /\ (\E j \in JobIds, chunk \in {<<"T", "}", LF>>, <<"M", "}", LF>>, <<"x", LF>>} :
                            /\ Len(jobs[j].events) < MaxIngest
                            /\ StdoutData(j, chunk))
  \/ ~NextTickPending /\ AnyClose
  \/ ~NextTickPending /\ AnyCancel
  \/ ~NextTickPending /\ \E j \in JobIds, cursor \in {NoString, Str(<<"0">>), Str(<<"2">>), Str(<<"1", "2">>), Str(<<"-", "1">>), Str(<<"x">>)}, maxEvents \in MaxEventsInputs : GetEventsAt(j, cursor, maxEvents)
  \/ ~NextTickPending /\ \E maxEvents \in MaxEventsInputs : GetEventsNext(maxEvents)

SpecReader == InitJob /\ [][NextReader]_vars

----------------------------------------------------------------------------
(* codex_spawn_group and codex_interrupt (src/src/tools/handlers.ts) *)

\* the for loop of CodexSpawnGroupToolHandler.execute: one spawnCodexJob per
\* requested job, a throw of one caught and the loop continued; a request
\* holds the job's merged arguments (args) and whether its binary can be
\* started (spawnOk)
RECURSIVE SpawnGroupLoop(_, _, _)
SpawnGroupLoop(reg, requests, stamp) ==
  IF requests = <<>> THEN reg
  ELSE SpawnGroupLoop(spawnCodexJob(reg, Head(requests).args, Head(requests).spawnOk,
                                    stamp),
                      Tail(requests), stamp)

DEFAULT_HANDSHAKE_MAX_EVENTS == 25
HANDSHAKE_HARD_CAP == 25

\* clampInt on integers
clampInt(value, min, max) == Min(max, Max(min, value))

\* the result pushed for a request with its label dropped
SpawnGroupResultUnlabelled(reg, request, includeHandshake, handshakeMaxEvents, stamp) ==
  IF Admitted(reg)
  THEN LET after == spawnCodexJob(reg, request.args, request.spawnOk, stamp)
           job == after[Len(after)]
       IN [jobId |-> job.jobId, status |-> job.status, startedAt |-> job.startedAt,
           label |-> <<>>,
           handshake |-> IF includeHandshake
                         THEN <<getEvents(job, Str(<<"0">>), handshakeMaxEvents)>>
                         ELSE <<>>]
  ELSE [error |-> "Too many concurrent jobs", label |-> <<>>]

\* the result the loop pushes for one request, reg being the registry before
\* its spawnCodexJob: the status of the new job, or the message of the error
\* caught; label and handshake are <<>> when the result has no such key
SpawnGroupResult(reg, request, includeHandshake, handshakeMaxEvents, stamp) ==
  LET label == IF Truthy(request.args.label) THEN <<request.args.label>> ELSE <<>>
  IN IF Admitted(reg)
     THEN LET after == spawnCodexJob(reg, request.args, request.spawnOk, stamp)
              job == after[Len(after)]
          IN [jobId |-> job.jobId, status |-> job.status, startedAt |-> job.startedAt,
              label |-> label,
              handshake |-> IF includeHandshake
                            THEN <<getEvents(job, Str(<<"0">>), handshakeMaxEvents)>>
                            ELSE <<>>]
     ELSE [error |-> "Too many concurrent jobs", label |-> label]

\* the results of the loop, in the order they are pushed
RECURSIVE SpawnGroupResults(_, _, _, _, _)
SpawnGroupResults(reg, requests, includeHandshake, handshakeMaxEvents, stamp) ==
  IF requests = <<>> THEN <<>>
  ELSE <<SpawnGroupResult(reg, Head(requests), includeHandshake,
                          handshakeMaxEvents, stamp)>>
       \o SpawnGroupResults(spawnCodexJob(reg, Head(requests).args,
                                          Head(requests).spawnOk, stamp),
                            Tail(requests), includeHandshake, handshakeMaxEvents,
                            stamp)

SpawnGroup(requests) ==
  /\ jobs' = SpawnGroupLoop(jobs, requests, nowIso)
  /\ UNCHANGED <<clock, envMaxJobs, envDefaultSandbox, reader, calls>>

Returned(call, previousStatus, reason) ==
  [call EXCEPT !.pc = "returned", !.previousStatus = previousStatus,
               !.reason = reason]

DEFAULT_EVENT_TAIL_MAX == 25
EVENT_TAIL_HARD_CAP == 25

\* buildInterruptPrompt: the prompt of a respawned job; of its text the model
\* keeps the header, which names the interrupted job
InterruptPrompt(previousJobId) ==
  <<"Prior Context (from interrupted job 1)", "Prior Context (from interrupted job 2)",
    "Prior Context (from interrupted job 3)", "Prior Context (from interrupted job 4)"
   >>[previousJobId]

\* RespawnArgs with the working directory always inherited
RespawnArgsSameDirectory(previousJobId, spawnMeta, overrides) ==
  LET effectiveBase == spawnMeta.effective
      sandbox == IF overrides.sandbox # Undefined THEN overrides.sandbox
                 ELSE effectiveBase.sandbox
      useFullAuto ==
        (IF overrides.fullAuto # NoBool THEN overrides.fullAuto[1]
         ELSE effectiveBase.useFullAuto) /\ ~Truthy(sandbox)
  IN [prompt |-> InterruptPrompt(previousJobId),
      effective |->
        Effective(IF overrides.model # Undefined THEN overrides.model
                  ELSE effectiveBase.model,
                  IF overrides.reasoningEffort # Undefined
                  THEN overrides.reasoningEffort ELSE effectiveBase.reasoningEffort,
                  sandbox, useFullAuto, effectiveBase.workingDirectory),
      label |-> spawnMeta.label]

\* the arguments codex_interrupt respawns with: the options of the interrupted
\* job (spawnMeta, which the handler reads before it cancels; a job's
\* spawnMetadata never changes) overlaid with the overrides
RespawnArgs(previousJobId, spawnMeta, overrides) ==
  LET effectiveBase == spawnMeta.effective
      sandbox == IF overrides.sandbox # Undefined THEN overrides.sandbox
                 ELSE effectiveBase.sandbox
      useFullAuto ==
        (IF overrides.fullAuto # NoBool THEN overrides.fullAuto[1]
         ELSE effectiveBase.useFullAuto) /\ ~Truthy(sandbox)
  IN [prompt |-> InterruptPrompt(previousJobId),
      effective |->
        Effective(IF overrides.model # Undefined THEN overrides.model
                  ELSE effectiveBase.model,
                  IF overrides.reasoningEffort # Undefined
                  THEN overrides.reasoningEffort ELSE effectiveBase.reasoningEffort,
                  sandbox, useFullAuto,
                  IF overrides.workingDirectory # Undefined
                  THEN overrides.workingDirectory
                  ELSE effectiveBase.workingDirectory),
      label |-> spawnMeta.label]

\* InterruptFinish without the refusal for a job that completed naturally
InterruptFinishNoReread(call, reg, spawnOk, stamp) ==
  LET statusAfter == reg[call.jobId].status
  IN IF ~Admitted(reg)
       THEN <<reg, [call EXCEPT !.pc = "threw"]>>
     ELSE <<spawnCodexJobWithEffectiveOptions(
              reg, RespawnArgs(call.jobId, getSpawnMetadata(reg[call.jobId]),
                               call.overrides),
              spawnOk, stamp),
            [Returned(call, statusAfter, Undefined) EXCEPT
               !.respawned = TRUE, !.newJobId = Len(reg) + 1]>>

\* CodexInterruptToolHandler.execute from `const statusAfter` to the end, on
\* registry reg: <<the registry after, the call after>>
InterruptFinish(call, reg, spawnOk, stamp) ==
  LET statusAfter == reg[call.jobId].status
  IN IF statusAfter \in {"done", "failed"}
       THEN <<reg, Returned(call, statusAfter, "completed naturally")>>
     ELSE IF ~Admitted(reg)
       THEN <<reg, [call EXCEPT !.pc = "threw"]>>
     ELSE <<spawnCodexJobWithEffectiveOptions(
              reg, RespawnArgs(call.jobId, getSpawnMetadata(reg[call.jobId]),
                               call.overrides),
              spawnOk, stamp),
            [Returned(call, statusAfter, Undefined) EXCEPT
               !.respawned = TRUE, !.newJobId = Len(reg) + 1]>>

\* the respawn of an interrupt needs room in the registry, which a
\* specification bounds by size
RoomFor(reg, j, size) ==
  (reg[j].status \notin {"done", "failed"} /\ Admitted(reg)) => Len(reg) < size

\* codex_interrupt, up to `await context.sendProgress`
InterruptStart(c, j, overrides) ==
  /\ calls[c].pc \in {"idle", "returned", "threw"}
  /\ LET status0 == jobs[j].status
         call == [IdleCall EXCEPT !.jobId = j, !.overrides = overrides]
     IN calls' = [calls EXCEPT ![c] =
                    IF status0 # "running"
                    THEN Returned(call, status0, "job is not running")
                    ELSE [call EXCEPT !.pc = "progress"]]
  /\ UNCHANGED <<jobs, clock, envMaxJobs, envDefaultSandbox, reader>>

\* codex_interrupt from getSpawnMetadata to `await waitForExit`, and to the
\* end when there is nothing to wait for.  parsed holds the arguments
\* includeEventTail (NoBool when it is not passed) and tailMaxEvents
\* (UndefinedNum when it is not passed); the call keeps them beside the
\* handler's tailMaxEvents and the tail it took.
InterruptCancel(c, waitMs, delivered, spawnOk, parsed, size) ==
  /\ calls[c].pc = "progress"
  /\ LET j == calls[c].jobId
         includeEventTail == IF parsed.includeEventTail = NoBool THEN TRUE
                             ELSE parsed.includeEventTail[1]
         tailMaxEvents == clampInt(IF parsed.tailMaxEvents = UndefinedNum
                                   THEN DEFAULT_EVENT_TAIL_MAX
                                   ELSE parsed.tailMaxEvents.val,
                                   0, EVENT_TAIL_HARD_CAP)
         tail == IF includeEventTail
                 THEN getEventTail(jobs[j], tailMaxEvents,
                                   <<{"message", "error", "progress"}>>)
                 ELSE <<>>
         call == [calls[c] EXCEPT !.parsed = parsed,
                                  !.tailMaxEvents = tailMaxEvents, !.tail = tail]
         cancelled == cancelSuccess(jobs[j])
         reg == [jobs EXCEPT ![j] = cancel(@, FALSE, delivered, nowIso)]
         fin == InterruptFinish(call, reg, spawnOk, nowIso)
     IN /\ IF ~cancelled
             THEN /\ calls' = [calls EXCEPT ![c] =
                                 Returned(call, reg[j].status, "job is not running")]
                  /\ jobs' = reg
           ELSE IF waitMs > 0 /\ reg[j].status = "running"
             THEN /\ calls' = [calls EXCEPT ![c] = [call EXCEPT !.pc = "waiting"]]
                  /\ jobs' = reg
           ELSE /\ RoomFor(reg, j, size)
                /\ jobs' = fin[1]
                /\ calls' = [calls EXCEPT ![c] = fin[2]]
  /\ UNCHANGED <<clock, envMaxJobs, envDefaultSandbox, reader>>

\* codex_interrupt after waitForExit: the completion signal fired, or the
\* timer of waitMs did
InterruptResume(c, spawnOk, size) ==
  /\ calls[c].pc = "waiting"
  /\ RoomFor(jobs, calls[c].jobId, size)
  /\ LET fin == InterruptFinish(calls[c], jobs, spawnOk, nowIso)
     IN /\ jobs' = fin[1]
        /\ calls' = [calls EXCEPT ![c] = fin[2]]
  /\ UNCHANGED <<clock, envMaxJobs, envDefaultSandbox, reader>>

----------------------------------------------------------------------------
(* The multi-job specification: spawns, groups, interrupts, cancels and the  *)
(* children's callbacks over a registry of at most MaxJobs jobs; the clock   *)
(* stands still.                                                             *)

Next ==
  \/ NextTick
  \/ ~NextTickPending /\ (\E spawnOk \in BOOLEAN : Len(jobs) < MaxJobs /\ SpawnCodexJob(PlainArgs, spawnOk))
  \/ ~NextTickPending /\ (\E n \in 2..MaxJobs : \E spawnOks \in [1..n -> BOOLEAN] :
                            /\ Len(jobs) + n <= MaxJobs
                            /\ SpawnGroup([i \in 1..n |-> [args |-> PlainArgs, spawnOk |-> spawnOks[i]]]))
  \/ ~NextTickPending /\ (\E j \in JobIds, chunk \in {<<"T", "}", LF>>} :
                            /\ ~jobs[j].turnCompleted
                            /\ StdoutData(j, chunk))
  \/ ~NextTickPending /\ (\E j \in JobIds, cs \in {<<Num(0), "null">>, <<NullNum, "SIGTERM">>} \cup {SpawnFailureClose} :
                            ChildClose(j, cs[1], cs[2]))
  \/ ~NextTickPending /\ (\E j \in JobIds : Cancel(j, FALSE, TRUE))
  \/ ~NextTickPending /\ \E c \in CallIds, j \in JobIds : InterruptStart(c, j, NoOverrides)
  \/ ~NextTickPending /\ \E c \in CallIds, waitMs \in {0, 250}, delivered \in BOOLEAN, spawnOk \in BOOLEAN : InterruptCancel(c, waitMs, delivered, spawnOk, [includeEventTail |-> Bool(FALSE), tailMaxEvents |-> UndefinedNum], MaxJobs)
  \/ ~NextTickPending /\ \E c \in CallIds, spawnOk \in BOOLEAN : InterruptResume(c, spawnOk, MaxJobs)

Spec == Init /\ [][Next]_vars

----------------------------------------------------------------------------
(* The interrupts specification: one spawned job, its child, and two         *)
(* codex_interrupt calls in flight at a time, each with its own waitMs,      *)
(* includeEventTail and tailMaxEvents; the respawned jobs write, close and   *)
(* are interrupted like the first.  The registry holds at most MaxJobs + 1   *)
(* jobs.                                                                     *)

InitInterrupts ==
  /\ jobs = <<>>
  /\ clock = 0
  /\ envMaxJobs \in {NoString, Str(<<"1">>)}
  /\ envDefaultSandbox = NoString
  /\ reader = NoRead
  /\ calls = [c \in 1..2 |-> IdleCall]

NextInterrupts ==
  \/ NextTick
  \/ ~NextTickPending /\ JobSpawn
  \/ ~NextTickPending /\ (\E chunk \in {<<"T", "}", LF>>, <<"C", "}", LF>>} :
                            /\ jobs # <<>>
                            /\ Len(jobs[1].events) < MaxIngest - 1
                            /\ StdoutData(1, chunk))
  \/ ~NextTickPending /\ (\E j \in JobIds, cs \in {<<Num(0), "null">>, <<NullNum, "SIGTERM">>} \cup {SpawnFailureClose} :
                            ChildClose(j, cs[1], cs[2]))
  \/ ~NextTickPending /\ \E c \in 1..2 : jobs # <<>> /\ InterruptStart(c, 1, NoOverrides)
  \/ ~NextTickPending /\ \E c \in 1..2, waitMs \in {0, 250}, delivered \in BOOLEAN,
                             parsed \in {[includeEventTail |-> NoBool, tailMaxEvents |-> UndefinedNum],
                                         [includeEventTail |-> Bool(FALSE), tailMaxEvents |-> Num(1)]} :
                            InterruptCancel(c, waitMs, delivered, TRUE, parsed, MaxJobs + 1)
  \/ ~NextTickPending /\ \E c \in 1..2 : InterruptResume(c, TRUE, MaxJobs + 1)

SpecInterrupts == InitInterrupts /\ [][NextInterrupts]_vars

----------------------------------------------------------------------------
(* The calls specification: a coordinator that calls spawn, cancel,          *)
(* waitForExit and waitAny and keeps the outcome of its last call, over a    *)
(* registry of at most MaxJobs jobs whose children terminate or are          *)
(* cancelled meanwhile.  A call is a record: op names the operation, pc is   *)
(* "waiting" while the call is suspended at its await, "returned" or "threw" *)
(* afterwards; jobIds, force and ms are its arguments (jobIds is <<jobId>>   *)
(* for the operations on one job); `ok` is `success` of cancel and `exited`  *)
(* of waitForExit, newJobId the jobId spawn returns, and out the result of   *)
(* waitAny.                                                                  *)

ToolCall(op, pc, jobIds, force, ms, ok, newJobId, out) ==
  [op |-> op, pc |-> pc, jobIds |-> jobIds, force |-> force, ms |-> ms,
   ok |-> ok, newJobId |-> newJobId, out |-> out]

NoOut == WaitAnyResult(<<>>, FALSE, <<>>)

NoToolCall == ToolCall("none", "idle", <<>>, FALSE, 0, FALSE, 0, NoOut)

InitCalls ==
  /\ jobs = <<>>
  /\ clock = 0
  /\ envMaxJobs \in {Str(<<"1">>), Str(<<"2">>)}
  /\ envDefaultSandbox = NoString
  /\ reader = NoRead
  /\ calls = [c \in CallIds |-> NoToolCall]

\* the registry is bounded: a spawn that would be admitted needs room in it
SpawnRoom == Admitted(jobs) => Len(jobs) < MaxJobs

\* the outcome of a spawn: the status it returns, or the error it throws
SpawnOutcome(op, reg) ==
  IF Admitted(reg)
  THEN ToolCall(op, "returned", <<>>, FALSE, 0, TRUE, Len(reg) + 1, NoOut)
  ELSE ToolCall(op, "threw", <<>>, FALSE, 0, FALSE, 0, NoOut)

\* codex_spawn
CallSpawn(c, spawnOk) ==
  /\ calls[c].pc # "waiting" /\ SpawnRoom
  /\ jobs' = spawnCodexJob(jobs, PlainArgs, spawnOk, nowIso)
  /\ calls' = [calls EXCEPT ![c] = SpawnOutcome("spawnCodexJob", jobs)]
  /\ UNCHANGED <<clock, envMaxJobs, envDefaultSandbox, reader>>

\* a spawn from effective options, those of job j
CallSpawnEffective(c, j, spawnOk) ==
  /\ calls[c].pc # "waiting" /\ SpawnRoom
  /\ jobs' = spawnCodexJobWithEffectiveOptions(
                jobs, RespawnArgs(j, getSpawnMetadata(jobs[j]), NoOverrides),
                spawnOk, nowIso)
  /\ calls' = [calls EXCEPT ![c] =
                 SpawnOutcome("spawnCodexJobWithEffectiveOptions", jobs)]
  /\ UNCHANGED <<clock, envMaxJobs, envDefaultSandbox, reader>>

\* codex_cancel
CallCancel(c, j, force, delivered) ==
  /\ calls[c].pc # "waiting"
  /\ jobs' = [jobs EXCEPT ![j] = cancel(@, force, delivered, nowIso)]
  /\ calls' = [calls EXCEPT ![c] =
                 ToolCall("cancel", "returned", <<j>>, force, 0,
                          cancelSuccess(jobs[j]), 0, NoOut)]
  /\ UNCHANGED <<clock, envMaxJobs, envDefaultSandbox, reader>>

\* waitForExit, up to its await
CallWaitForExit(c, j, waitMs) ==
  /\ calls[c].pc # "waiting"
  /\ LET r == waitForExit(jobs[j], waitMs)
     IN calls' = [calls EXCEPT ![c] =
                    ToolCall("waitForExit", IF r[1] THEN "returned" ELSE "waiting",
                             <<j>>, FALSE, waitMs, r[2], 0, NoOut)]
  /\ UNCHANGED <<jobs, clock, envMaxJobs, envDefaultSandbox, reader>>

\* codex_wait_any, up to its await
CallWaitAny(c, jobIds, timeoutMs) ==
  /\ calls[c].pc # "waiting"
  /\ LET r == waitAny(jobs, jobIds)
     IN calls' = [calls EXCEPT ![c] =
                    ToolCall("waitAny", IF r[1] THEN "returned" ELSE "waiting",
                             jobIds, FALSE, timeoutMs, FALSE, 0, r[2])]
  /\ UNCHANGED <<jobs, clock, envMaxJobs, envDefaultSandbox, reader>>

\* the jobs a suspended call awaits whose completion signal has fired
Fired(call) ==
  {j \in {call.jobIds[i] : i \in 1..Len(call.jobIds)} :
     Has(jobs, j) /\ jobs[j].completion}

\* the continuation of a suspended call is queued as soon as a completion it
\* awaits fires, and runs before any other callback
MicrotaskPending == \E c \in CallIds : calls[c].pc = "waiting" /\ Fired(calls[c]) # {}

\* the continuation after `await Promise.race(...)` won by a completion
Released(c) ==
  /\ calls[c].pc = "waiting" /\ Fired(calls[c]) # {}
  /\ calls' = [calls EXCEPT ![c] =
                 IF @.op = "waitForExit"
                 THEN [@ EXCEPT !.pc = "returned", !.ok = TRUE]
                 ELSE [@ EXCEPT !.pc = "returned",
                                !.out = waitAnyResume(@, <<CHOOSE j \in Fired(calls[c]) : TRUE>>)]]
  /\ UNCHANGED <<jobs, clock, envMaxJobs, envDefaultSandbox, reader>>

\* the continuation after `await Promise.race(...)` won by the timer
TimedOut(c) ==
  /\ calls[c].pc = "waiting" /\ Fired(calls[c]) = {}
  /\ calls' = [calls EXCEPT ![c] =
                 IF @.op = "waitForExit"
                 THEN [@ EXCEPT !.pc = "returned", !.ok = FALSE]
                 ELSE [@ EXCEPT !.pc = "returned", !.out = waitAnyResume(@, <<>>)]]
  /\ UNCHANGED <<jobs, clock, envMaxJobs, envDefaultSandbox, reader>>

\* the children of the calls specifications exit with code 0, or close after
\* a failed spawn
CallsClose ==
  \E j \in JobIds, cs \in {<<Num(0), "null">>, SpawnFailureClose} :
    ChildClose(j, cs[1], cs[2])

NextCalls ==
  \/ \E c \in CallIds : CallSpawn(c, TRUE)
  \/ \E c \in CallIds, j \in JobIds : CallSpawnEffective(c, j, TRUE)
  \/ \E c \in CallIds, j \in JobIds, force \in BOOLEAN, delivered \in BOOLEAN : CallCancel(c, j, force, delivered)
  \/ CallsClose

SpecCalls == InitCalls /\ [][NextCalls]_vars

\* codex_spawn_group: the requests, whether a handshake is asked for and the
\* handshakeMaxEvents argument (UndefinedNum when it is not passed); the call
\* record keeps the requests beside the results
CallSpawnGroup(c, requests, includeHandshake, handshakeMaxEventsRaw) ==
  LET handshakeMaxEvents ==
        clampInt(IF handshakeMaxEventsRaw = UndefinedNum
                 THEN DEFAULT_HANDSHAKE_MAX_EVENTS ELSE handshakeMaxEventsRaw.val,
                 1, HANDSHAKE_HARD_CAP)
  IN /\ calls[c].pc = "idle"
     /\ Len(SpawnGroupLoop(jobs, requests, nowIso)) <= MaxJobs
     /\ jobs' = SpawnGroupLoop(jobs, requests, nowIso)
     /\ calls' = [calls EXCEPT ![c] =
          ToolCall("codex_spawn_group", "returned", <<>>, FALSE, 0, TRUE, 0,
                   [requests |-> requests,
                    results |-> SpawnGroupResults(jobs, requests, includeHandshake,
                                                  handshakeMaxEvents, nowIso)])]
     /\ UNCHANGED <<clock, envMaxJobs, envDefaultSandbox, reader>>

NextGroup ==
  \/ \E c \in CallIds, requests \in (UNION {[1..n -> {[args |-> [PlainArgs EXCEPT !.label = label], spawnOk |-> TRUE] :
                                                        label \in {Undefined, "", "a"}}] : n \in 1..MaxJobs}), includeHandshake \in BOOLEAN, raw \in {UndefinedNum, Num(0), Num(2)} : CallSpawnGroup(c, requests, includeHandshake, raw)
  \/ \E c \in CallIds : calls[c].pc = "returned" /\ calls' = [calls EXCEPT ![c] = NoToolCall] /\ UNCHANGED <<jobs, clock, envMaxJobs, envDefaultSandbox, reader>>
  \/ (\A c \in CallIds : calls[c].pc = "idle") /\ CallsClose

SpecGroup == InitCalls /\ [][NextGroup]_vars

----------------------------------------------------------------------------
(* The waits specification: waitForExit and waitAny called on a registry of  *)
(* at most MaxJobs jobs, spawned under the default cap, whose children fail  *)
(* to start, are cancelled or exit while the call is suspended.              *)

InitWaits ==
  /\ jobs = <<>>
  /\ clock = 0
  /\ envMaxJobs = NoString
  /\ envDefaultSandbox = NoString
  /\ reader = NoRead
  /\ calls = [c \in CallIds |-> NoToolCall]

\* callbacks wait for the queued continuation and for the queued 'error' of a
\* failed spawn
Quiet == ~NextTickPending /\ ~MicrotaskPending

NextWaits ==
  \/ \E c \in CallIds : Released(c)
  \/ ~MicrotaskPending /\ NextTick
  \/ Quiet /\ (\E spawnOk \in BOOLEAN : Len(jobs) < MaxJobs /\ SpawnCodexJob(PlainArgs, spawnOk))
  \/ Quiet /\ (\E j \in JobIds, delivered \in BOOLEAN : Cancel(j, FALSE, delivered))
  \/ Quiet /\ CallsClose
  \/ Quiet /\ \E c \in CallIds, j \in JobIds, waitMs \in {0 - 5, 0, 250} : CallWaitForExit(c, j, waitMs)
  \/ Quiet /\ \E c \in CallIds, jobIds \in (LET ids == JobIds \cup {UnknownId} IN {<<>>} \cup {<<a>> : a \in ids} \cup {<<a, b>> : a \in ids, b \in ids}), timeoutMs \in {0, 1000} : CallWaitAny(c, jobIds, timeoutMs)
  \/ Quiet /\ \E c \in CallIds : TimedOut(c)

SpecWaits == InitWaits /\ [][NextWaits]_vars

----------------------------------------------------------------------------
(* The blocking specification: two callers of waitForExit and waitAny, which *)
(* may wait on the same job, over a registry of fewer than MaxJobs jobs.  The*)
(* event loop runs what is ready: the continuation of a call whose awaited   *)
(* completion has fired, the callback of a timer that was set, the 'error'   *)
(* callback queued for a failed spawn; the children are free never to        *)
(* terminate.                                                                *)

InitBlocking ==
  /\ jobs = <<>>
  /\ clock = 0
  /\ envMaxJobs = NoString
  /\ envDefaultSandbox = NoString
  /\ reader = NoRead
  /\ calls = [c \in 1..2 |-> NoToolCall]

NextBlocking ==
  \/ \E c \in 1..2 : Released(c)
  \/ (\A c \in 1..2 : calls[c].pc = "waiting" => Fired(calls[c]) = {}) /\ NextTick
  \/ (\A c \in 1..2 : calls[c].pc = "waiting" => Fired(calls[c]) = {}) /\ ~NextTickPending
       /\ (\E spawnOk \in BOOLEAN : Len(jobs) < MaxJobs - 1 /\ SpawnCodexJob(PlainArgs, spawnOk))
  \/ (\A c \in 1..2 : calls[c].pc = "waiting" => Fired(calls[c]) = {}) /\ ~NextTickPending
       /\ (\E j \in JobIds, delivered \in BOOLEAN : Cancel(j, FALSE, delivered))
  \/ (\A c \in 1..2 : calls[c].pc = "waiting" => Fired(calls[c]) = {}) /\ ~NextTickPending
       /\ CallsClose
  \/ (\A c \in 1..2 : calls[c].pc = "waiting" => Fired(calls[c]) = {}) /\ ~NextTickPending
       /\ (\E c \in 1..2, j \in JobIds, waitMs \in {0, 250} : CallWaitForExit(c, j, waitMs))
  \/ (\A c \in 1..2 : calls[c].pc = "waiting" => Fired(calls[c]) = {}) /\ ~NextTickPending
       /\ (\E c \in 1..2, jobIds \in {<<j>> : j \in JobIds} \cup {<<1, 2>>, <<UnknownId, 1>>} :
             CallWaitAny(c, jobIds, 1000))
  \/ (\A c \in 1..2 : calls[c].pc = "waiting" => Fired(calls[c]) = {}) /\ ~NextTickPending
       /\ (\E c \in 1..2 : TimedOut(c))

SpecBlocking ==
  /\ InitBlocking
  /\ [][NextBlocking]_vars
  /\ WF_vars(NextTick)
  /\ \A c \in 1..2 : WF_vars(Released(c)) /\ WF_vars(~NextTickPending /\ TimedOut(c))

----------------------------------------------------------------------------
(* The reads specification: one job whose child prints messages, is          *)
(* cancelled and terminates, and a caller of the operations that take a      *)
(* jobId, with the identifier of the job or an unknown one.  Of its last     *)
(* call, the caller keeps the operation, the jobId and what came back:       *)
(* payload is <<the value returned>>, and <<>> when the call threw.  The      *)
(* caller may call again at once; when it gives way to the callbacks of the  *)
(* child it keeps nothing of the call.                                       *)

ReadOps == {"getStatus", "getResult", "getSpawnMetadata", "getEvents", "getEventTail",
            "codex_result"}

RequireOps == ReadOps \cup {"cancel", "waitForExit", "codex_interrupt"}

\* what op returns for the record requireJob found; args holds the cursor,
\* maxEvents and allowedTypes of getEvents and getEventTail; the mutators are
\* called where they change nothing: cancel and codex_interrupt on a job that is
\* not running, waitForExit with waitMs 0
Payload(op, job, args) ==
  CASE op = "getStatus" -> getStatus(job)
    [] op = "getResult" -> getResult(job)
    [] op = "getSpawnMetadata" -> getSpawnMetadata(job)
    [] op = "getEvents" -> getEvents(job, args.cursor, args.maxEvents)
    [] op = "getEventTail" ->
         [events |-> getEventTail(job, args.maxEvents, args.allowedTypes)]
    [] op = "codex_result" -> [text |-> finalMessageView(getResult(job))]
    [] op = "cancel" -> [success |-> cancelSuccess(job)]
    [] op = "waitForExit" -> [exited |-> waitForExit(job, 0)[2]]
    [] op = "codex_interrupt" -> [previousStatus |-> job.status, respawned |-> FALSE]

\* the record after op with getEvents taking the events it returns out of it
AfterCallDraining(op, job) ==
  IF op = "cancel" THEN cancel(job, FALSE, TRUE, nowIso)
  ELSE IF op = "getEvents" THEN [job EXCEPT !.events = <<>>]
  ELSE job

\* the record after op: cancel does what it does, the other operations assign
\* nothing to the record
AfterCall(op, job) ==
  IF op = "cancel" THEN cancel(job, FALSE, TRUE, nowIso) ELSE job

ReadCall(op, pc, jobId, args, payload) ==
  [op |-> op, pc |-> pc, jobId |-> jobId, args |-> args, payload |-> payload]

NoReadCall == ReadCall("none", "idle", UnknownId, <<>>, <<>>)

InitReads ==
  /\ jobs = <<>>
  /\ clock = 0
  /\ envMaxJobs = NoString
  /\ envDefaultSandbox = NoString
  /\ reader = NoRead
  /\ calls = [c \in CallIds |-> NoReadCall]

\* a call of op with jobId and args
Require(c, op, jobId, args) ==
  /\ IF Has(jobs, jobId)
     THEN op \in ReadOps \cup {"waitForExit"} \/ jobs[jobId].status # "running"
     ELSE TRUE
  /\ LET found == requireJob(jobs, jobId)
     IN /\ calls' = [calls EXCEPT ![c] =
                    IF found = <<>> THEN ReadCall(op, "threw", jobId, args, <<>>)
                    ELSE ReadCall(op, "returned", jobId, args,
                                  <<Payload(op, found[1], args)>>)]
        /\ jobs' = IF found = <<>> THEN jobs
                   ELSE [jobs EXCEPT ![jobId] = AfterCall(op, found[1])]
  /\ UNCHANGED <<clock, envMaxJobs, envDefaultSandbox, reader>>

\* the caller gives way to the callbacks of the child
Yield(c) ==
  /\ calls[c].pc # "idle"
  /\ calls' = [calls EXCEPT ![c] = NoReadCall]
  /\ UNCHANGED <<jobs, clock, envMaxJobs, envDefaultSandbox, reader>>

\* nothing has run since the last call returned
Fresh == \E c \in CallIds : calls[c].pc # "idle"

\* stdout chunks of the reads specification: whole lines, among them messages
\* with a blank text and without text, and a line that is no JSON followed in
\* the same chunk by a message
ReadsChunks ==
  {<<"T", "}", LF>>, <<"M", "}", LF>>, <<"B", "}", LF>>, <<"E", "}", LF>>,
   <<"x", LF>>, <<"x", LF, "W", "}", LF>>}

NextReads ==
  \/ \E c \in CallIds, op \in RequireOps, jobId \in JobIds \cup {UnknownId} :
       ~NextTickPending /\ Require(c, op, jobId, [cursor |-> Str(<<"1">>), maxEvents |-> 2, allowedTypes |-> <<{"message", "error", "progress"}>>])
  \/ \E c \in CallIds : Yield(c)
  \/ NextTick
  \/ ~Fresh /\ ~NextTickPending /\ JobSpawn
  \/ ~Fresh /\ ~NextTickPending /\ (\E j \in JobIds, chunk \in ReadsChunks :
                                      Len(jobs[j].events) < MaxIngest /\ StdoutData(j, chunk))
  \/ ~Fresh /\ ~NextTickPending /\ AnyClose
  \/ ~Fresh /\ ~NextTickPending /\ AnyCancel

SpecReads == InitReads /\ [][NextReads]_vars

----------------------------------------------------------------------------
(* The pages specification: one job, its child, and calls of getEvents and   *)
(* getEventTail with arguments of every kind: a cursor that is absent, empty,*)
(* a number, negative, no number, or a number followed by a letter; counts   *)
(* below, at and above zero; no allow-list, the one of codex_interrupt, one  *)
(* that holds a single type; and then calls of codex_interrupt that do not   *)
(* wait, with includeEventTail and tailMaxEvents of every kind.              *)

NextPages ==
  \/ \E c \in CallIds, jobId \in JobIds, cursor \in {NoString, Str(<<>>), Str(<<"0">>), Str(<<"1">>), Str(<<"2">>), Str(<<"1", "2">>), Str(<<"-", "1">>), Str(<<"x">>), Str(<<"2", "x">>)}, maxEvents \in MaxEventsInputs \cup {0 - 1} :
       /\ ~NextTickPending /\ calls[2].pc = "idle"
       /\ Require(c, "getEvents", jobId, [cursor |-> cursor, maxEvents |-> maxEvents, allowedTypes |-> <<>>])
  \/ \E c \in CallIds, jobId \in JobIds, maxEvents \in {0 - 1, 0, 1, 2, 30}, allowedTypes \in {<<>>, <<{"message", "error", "progress"}>>, <<{"progress"}>>} :
       /\ ~NextTickPending /\ calls[2].pc = "idle"
       /\ Require(c, "getEventTail", jobId, [cursor |-> NoString, maxEvents |-> maxEvents, allowedTypes |-> allowedTypes])
  \/ \E c \in CallIds : Yield(c)
  \/ ~Fresh /\ ~NextTickPending /\ (\E j \in JobIds : InterruptStart(2, j, NoOverrides))
  \/ ~Fresh /\ ~NextTickPending /\ (\E includeEventTail \in {NoBool, Bool(TRUE), Bool(FALSE)}, tailMaxEvents \in {UndefinedNum, Num(0 - 1), Num(0), Num(1), Num(2), Num(30)} :
                                      InterruptCancel(2, 0, TRUE, TRUE, [includeEventTail |-> includeEventTail, tailMaxEvents |-> tailMaxEvents], MaxJobs))
  \/ NextTick
  \/ ~Fresh /\ ~NextTickPending /\ JobSpawn
  \/ ~Fresh /\ ~NextTickPending /\ (\E j \in JobIds, chunk \in {<<"T", "}", LF>>, <<"M", "}", LF>>, <<"C", "}", LF>>, <<"x", LF>>} :
                                      /\ calls[2].pc = "idle"
                                      /\ Len(jobs[j].events) < MaxIngest
                                      /\ StdoutData(j, chunk))
  \/ ~Fresh /\ ~NextTickPending /\ calls[2].pc = "idle" /\ AnyClose

\* the first slot holds the reading call, the second a codex_interrupt
InitPages ==
  /\ jobs = <<>>
  /\ clock = 0
  /\ envMaxJobs = NoString
  /\ envDefaultSandbox = NoString
  /\ reader = NoRead
  /\ calls = [c \in 1..2 |-> IF c = 1 THEN NoReadCall ELSE IdleCall]

SpecPages == InitPages /\ [][NextPages]_vars

----------------------------------------------------------------------------
(* The output tails: appendTail on strings of any kind, and the data         *)
(* callbacks of one job whose child prints characters of one to four bytes   *)
(* without ending the line.                                                  *)

\* strings of up to two code units, lone surrogates included
TailStrings ==
  LET Units == {"a", "e3", "H", "L"}
  IN {<<>>} \cup {<<u>> : u \in Units} \cup {<<u, v>> : u, v \in Units}

\* an application of appendTail and what it returned
Application(pc, current, chunk, maxBytes, result) ==
  [pc |-> pc, current |-> current, chunk |-> chunk, maxBytes |-> maxBytes,
   result |-> result]

NoApplication == Application("idle", <<>>, <<>>, 0, <<>>)

InitTail ==
  /\ jobs = <<>>
  /\ clock = 0
  /\ envMaxJobs = NoString
  /\ envDefaultSandbox = NoString
  /\ reader = NoRead
  /\ calls = [c \in CallIds |-> NoApplication]

\* appendTail(current, chunk, maxBytes)
ApplyAppendTail(c, current, chunk, maxBytes) ==
  /\ calls[c].pc = "idle"
  /\ calls' = [calls EXCEPT ![c] =
       Application("returned", current, chunk, maxBytes,
                   appendTail(current, chunk, maxBytes))]
  /\ UNCHANGED <<jobs, clock, envMaxJobs, envDefaultSandbox, reader>>

\* the result is dropped
DropApplication(c) ==
  /\ calls[c].pc = "returned"
  /\ calls' = [calls EXCEPT ![c] = NoApplication]
  /\ UNCHANGED <<jobs, clock, envMaxJobs, envDefaultSandbox, reader>>

\* what Buffer.toString() gives for the chunks of the child: whole characters
OutputChunks == {<<"a">>, <<"e2">>, <<"e3">>, <<"H", "L">>}

NextTail ==
  \/ \E c \in CallIds, current \in TailStrings, chunk \in TailStrings, maxBytes \in 0..MAX_OUTPUT_BUFFER_BYTES : jobs = <<>> /\ ApplyAppendTail(c, current, chunk, maxBytes)
  \/ \E c \in CallIds : DropApplication(c)
  \/ (\A c \in CallIds : calls[c].pc = "idle") /\ jobs = <<>> /\ SpawnCodexJob(PlainArgs, TRUE)
  \/ \E j \in JobIds, chunk \in OutputChunks : Len(jobs[j].stdoutRemainder) + Len(chunk) <= MaxStream /\ StdoutData(j, chunk)
  \/ \E j \in JobIds, chunk \in OutputChunks : StderrData(j, chunk)
  \/ \E j \in JobIds : ChildClose(j, Num(0), "null")

SpecTail == InitTail /\ [][NextTail]_vars

----------------------------------------------------------------------------
(* The stream specification: normalizeThreadEvent on decoded values of every *)
(* kind, and the stdout of one job cut into chunks at every place: a stream  *)
(* of up to MaxStream characters among a turn.completed document, a letter   *)
(* that is no JSON, blanks and line feeds.  The stream fits the stdout tail, *)
(* which therefore holds the concatenation of the chunks.                    *)

InitStream ==
  /\ jobs = <<>>
  /\ clock = 0
  /\ envMaxJobs = NoString
  /\ envDefaultSandbox = NoString
  /\ reader = NoRead
  /\ calls = [c \in CallIds |-> [pc |-> "idle", raw |-> Undefined, result |-> NoEvent]]

\* normalizeThreadEvent(rawEvent)
Normalize(c, raw) ==
  /\ calls' = [calls EXCEPT ![c] =
       [pc |-> "returned", raw |-> raw, result |-> normalizeThreadEvent(raw, nowIso)]]
  /\ UNCHANGED <<jobs, clock, envMaxJobs, envDefaultSandbox, reader>>

NextStream ==
  \/ \E c \in CallIds, isObject \in BOOLEAN,
         type \in {Undefined, "thread.started", "turn.started", "turn.completed", "turn.failed", "error", "task.note"} \cup ItemWrappers,
         itemType \in {Undefined, "agent_message", "reasoning", "command_execution", "file_change", "mcp_tool_call", "web_search", "todo_list", "error", "gizmo"},
         text \in {Undefined, "hello"}, kind \in {Undefined, "turn.completed"} :
       jobs = <<>> /\ Normalize(c, Raw(isObject, type, itemType, text, kind))
  \/ \E c \in CallIds :
       /\ calls[c].pc = "returned"
       /\ calls' = [calls EXCEPT ![c] = [pc |-> "idle", raw |-> Undefined, result |-> NoEvent]]
       /\ UNCHANGED <<jobs, clock, envMaxJobs, envDefaultSandbox, reader>>
  \/ (\A c \in CallIds : calls[c].pc = "idle") /\ jobs = <<>> /\ Tick
  \/ (\A c \in CallIds : calls[c].pc = "idle") /\ jobs = <<>> /\ SpawnCodexJob(PlainArgs, TRUE)
  \/ \E j \in JobIds, n \in 1..MaxStream : \E chunk \in [1..n -> {"T", "}", "x", SP, LF}] :
       /\ Len(jobs[j].stdoutTail) + Len(chunk) <= MaxStream
       /\ StdoutData(j, chunk)

SpecStream == InitStream /\ [][NextStream]_vars

----------------------------------------------------------------------------
(* The options specification: one job spawned with any arguments under any   *)
(* default sandbox, and one interrupt of it with any overrides.              *)

InitOptions ==
  /\ jobs = <<>>
  /\ clock = 0
  /\ envMaxJobs = NoString
  /\ envDefaultSandbox \in {NoString, Str(""), Str("read-only"), Str("bogus")}
  /\ reader = NoRead
  /\ calls = [c \in CallIds |-> IdleCall]

NextOptions ==
  \/ (\E args \in SpawnArgInputs : jobs = <<>> /\ SpawnCodexJob(args, TRUE))
  \/ (\E effective \in {Effective(model, reasoningEffort, sandbox, useFullAuto, workingDirectory) : model \in {Undefined, "gpt-5"}, reasoningEffort \in {Undefined, "low"}, sandbox \in {Undefined} \cup SandboxMode, useFullAuto \in BOOLEAN, workingDirectory \in {Undefined, "/work"}}, label \in {Undefined, "a"} :
        /\ jobs = <<>>
        /\ jobs' = spawnCodexJobWithEffectiveOptions(
                      jobs, [prompt |-> ("continue"), effective |-> effective, label |-> label],
                      TRUE, nowIso)
        /\ UNCHANGED <<clock, envMaxJobs, envDefaultSandbox, reader, calls>>)
  \/ (\E args \in SpawnArgInputs :
        jobs = <<>> /\ SpawnGroup(<<[args |-> args, spawnOk |-> TRUE]>>))
  \/ (\E c \in CallIds, overrides \in {Overrides(model, reasoningEffort, sandbox, fullAuto, workingDirectory) : model \in {Undefined, "o3"}, reasoningEffort \in {Undefined, "high"}, sandbox \in {Undefined} \cup SandboxMode, fullAuto \in {NoBool, Bool(TRUE), Bool(FALSE)}, workingDirectory \in {Undefined, "/other"}} :
        Len(jobs) = 1 /\ calls[c].pc = "idle" /\ InterruptStart(c, 1, overrides))
  \/ (\E c \in CallIds : InterruptCancel(c, 0, TRUE, TRUE, [includeEventTail |-> Bool(FALSE), tailMaxEvents |-> UndefinedNum], MaxJobs))

SpecOptions == InitOptions /\ [][NextOptions]_vars

----------------------------------------------------------------------------
(* Properties *)

IsPrefix(a, b) == Len(a) <= Len(b) /\ SubSeq(b, 1, Len(a)) = a

Last(s) == s[Len(s)]

\* a normalized progress event of kind turn.completed is in the job's vector
TurnCompletedObserved(job) ==
  \E i \in 1..Len(job.events) :
    job.events[i].type = "progress" /\ job.events[i].content.kind = "turn.completed"

CountType(events, type) ==
  Cardinality({i \in 1..Len(events) : events[i].type = type})

\* C1: once a job's status is done, failed or canceled, no step assigns it
\* another value.
TerminalOnce ==
  [][\A j \in JobIds :
       jobs[j].status \in Terminal => jobs'[j].status = jobs[j].status]_vars

ExitCodeClassification ==
  \A j \in JobIds :
    (jobs[j].child.phase = "closed"
       /\ ~(jobs[j].cancelRequested /\ ~jobs[j].turnCompleted))
    => /\ jobs[j].status \in {"done", "failed"}
       /\ jobs[j].status = "done" <=> jobs[j].exitCode = Num(0)

ExitCodeClassificationWitness ==
  \E j \in JobIds :
    /\ jobs[j].child.phase = "closed"
    /\ jobs[j].cancelRequested
    /\ jobs[j].turnCompleted
    /\ jobs[j].exitCode = Num(0)
    /\ jobs[j].status = "done"

\* C4: every step leaves each job's event vector a prefix of the new one.
AppendOnly ==
  [][\A j \in JobIds : IsPrefix(jobs[j].events, jobs'[j].events)]_vars

AppendOnlyWitness ==
  \E j \in JobIds :
    /\ jobs[j].status \in Terminal
    /\ Len(jobs[j].events) >= 4
    /\ \E i \in 1..Len(jobs[j].events) :
         jobs[j].events[i].content.message = "Failed to parse codex JSONL event"
    /\ Last(jobs[j].events).type = "final"

ReadJob == jobs[reader'.jobId]

NextCursorValue(r) == ParseInt(r.nextCursor).val

\* the page of a chained call shares no position with the page before it
NoRepeat == reader'.chained /\ reader'.count > 0
              => reader'.first >= reader.first + reader.count

\* C5 as stated: every call returns a nextCursor that is at least the cursor
\* it was given, and a call with that nextCursor repeats no event.
CursorMonotone ==
  [][reader' # reader =>
       /\ NextCursorValue(reader') >= reader'.asked
       /\ NoRepeat]_vars

\* C5, amended: a call with a cursor that is at most the length of the event
\* vector returns a nextCursor that is at least that cursor; a call with a
\* cursor beyond the length returns an empty page and the length as
\* nextCursor; and a call with the returned nextCursor repeats no event.
CursorLaw ==
  [][reader' # reader =>
       /\ reader'.asked <= Len(ReadJob.events)
            => NextCursorValue(reader') >= reader'.asked
       /\ reader'.asked > Len(ReadJob.events)
            => NextCursorValue(reader') = Len(ReadJob.events) /\ reader'.count = 0
       /\ NoRepeat]_vars

CursorLawWitness ==
  /\ reader.chained
  /\ reader.count > 0
  /\ reader.first > 0
  /\ reader.asked = reader.first

\* C6 as stated: paging from cursor 0, the pages up to and including the
\* first one with done = true make up the whole event vector.
PagesUntilDone ==
  [][(reader' # reader /\ reader'.fromZero /\ reader'.done
        /\ (reader'.chained => ~reader.done))
       => reader'.got = ReadJob.events]_vars

\* C6, amended: paging from cursor 0, the pages read so far are at every
\* moment a prefix of the event vector, and they make up the whole vector as
\* of the call whenever a page comes back with fewer than max(1, maxEvents)
\* events; a page with done = true that is full need not be the last one.
PagesUntilShort ==
  /\ [](reader.fromZero => IsPrefix(reader.got, jobs[reader.jobId].events))
  /\ [][(reader' # reader /\ reader'.fromZero /\ reader'.short)
          => reader'.got = ReadJob.events]_vars

PagesUntilShortWitness ==
  /\ reader.fromZero
  /\ reader.chained
  /\ reader.short
  /\ reader.done
  /\ Len(reader.got) >= 4
  /\ reader.got = jobs[reader.jobId].events

\* C7: the vector starts with the `spawned` event, and once the job is
\* terminal it ends with the `final` event or the child's `error` event.
SpawnedFirstFinalLast ==
  \A j \in JobIds :
    /\ jobs[j].events[1].content.kind = "spawned"
    /\ jobs[j].status \in Terminal
         => \/ Last(jobs[j].events).type = "final"
            \/ Last(jobs[j].events).content.message = "Error"

\* C8: once the completion signal of a job has fired, its event vector keeps
\* its length.
NoEventAfterCompletion ==
  [][\A j \in JobIds :
       jobs[j].completion => Len(jobs'[j].events) = Len(jobs[j].events)]_vars

\* C9: a running job has no finishedAt and a terminal one has it; once the
\* job is terminal its finishedAt, exitCode and exitSignal keep their values
\* and no further `final` event is added; no job has two `final` events.
AssignedOnce ==
  /\ [](\A j \in JobIds :
          /\ jobs[j].status = "running" <=> jobs[j].finishedAt = UndefinedNum
          /\ CountType(jobs[j].events, "final") <= 1)
  /\ [][\A j \in JobIds :
          jobs[j].status \in Terminal
          => /\ jobs'[j].finishedAt = jobs[j].finishedAt
             /\ jobs'[j].exitCode = jobs[j].exitCode
             /\ jobs'[j].exitSignal = jobs[j].exitSignal
             /\ CountType(jobs'[j].events, "final")
                  = CountType(jobs[j].events, "final")]_vars

\* C10: the number of running jobs never exceeds the cap read from
\* CODEX_MCP_MAX_JOBS.
AdmissionCap == RunningIn(jobs) <= parseMaxJobsFromEnv

AdmissionCapWitness ==
  /\ parseMaxJobsFromEnv = 1
  /\ Len(jobs) >= 2
  /\ RunningIn(jobs) = 1
  /\ \E c \in CallIds : calls[c].pc = "threw"

\* the refusal of an interrupt of job j whose status is not running: the
\* status as it is, nothing respawned, the registry untouched
NotRunningRefusal(c, j) ==
  /\ calls'[c].pc = "returned"
  /\ calls'[c].jobId = j
  /\ ~calls'[c].respawned
  /\ calls'[c].previousStatus = jobs[j].status
  /\ calls'[c].reason = "job is not running"
  /\ jobs' = jobs

\* C17: an interrupt that finds its job not running, at its first status
\* read or when it calls cancel, returns the refusal 'job is not running'
\* with the job's status and changes nothing.
InterruptNotRunning ==
  [][\A c \in CallIds :
       /\ (calls[c].pc \in {"idle", "returned", "threw"} /\ calls'[c] # calls[c]
              /\ jobs[calls'[c].jobId].status # "running")
            => NotRunningRefusal(c, calls'[c].jobId)
       /\ (calls[c].pc = "progress" /\ calls'[c].pc # "progress"
              /\ jobs[calls[c].jobId].status # "running")
            => NotRunningRefusal(c, calls[c].jobId)]_vars

InterruptNotRunningWitness ==
  \E c \in CallIds :
    /\ calls[c].pc = "returned"
    /\ calls[c].reason = "job is not running"
    /\ calls[c].previousStatus = "done"
    /\ ~jobs[calls[c].jobId].cancelRequested
    /\ jobs[calls[c].jobId].child.signal = "none"

\* C18: an interrupt that requested cancellation and then reads the status
\* done or failed returns the refusal 'completed naturally' with that status
\* and adds no record; no interrupt that respawned read done or failed.
InterruptCompletedNaturally ==
  /\ [](\A c \in CallIds :
          calls[c].respawned => calls[c].previousStatus \notin {"done", "failed"})
  /\ [][\A c \in CallIds :
          (/\ calls[c].pc \in {"progress", "waiting"}
           /\ calls'[c].pc \in {"returned", "threw"}
           /\ calls[c].pc = "progress" => jobs[calls[c].jobId].status = "running"
           /\ jobs'[calls[c].jobId].status \in {"done", "failed"})
          => /\ calls'[c].pc = "returned"
             /\ ~calls'[c].respawned
             /\ calls'[c].previousStatus = jobs'[calls[c].jobId].status
             /\ calls'[c].reason = "completed naturally"
             /\ Len(jobs') = Len(jobs)]_vars

InterruptCompletedNaturallyWitness ==
  \E c \in CallIds :
    /\ calls[c].pc = "returned"
    /\ calls[c].reason = "completed naturally"
    /\ calls[c].previousStatus = "done"
    /\ jobs[calls[c].jobId].cancelRequested
    /\ jobs[calls[c].jobId].turnCompleted

\* the value that follows flag in argv, Undefined when the flag is not there
ArgValue(argv, flag) ==
  IF \E i \in 1..Len(argv) : argv[i] = flag
  THEN argv[(CHOOSE i \in 1..Len(argv) : argv[i] = flag) + 1]
  ELSE Undefined

\* an optional string overlaid on a base value
Overlaid(override, base) == IF override # Undefined THEN override ELSE base

\* what every respawn is claimed to do besides useFullAuto and the label: the
\* plain fields overlaid, the new job registered and another one, and with
\* no overrides the same --model, --sandbox and -C in argv
RespawnPlainFields(call) ==
  LET old == jobs[call.jobId]
      new == jobs[call.newJobId]
      base == old.spawnMetadata.effective
      eff == new.spawnMetadata.effective
      ov == call.overrides
  IN /\ call.newJobId \in JobIds /\ call.newJobId # call.jobId
     /\ eff.model = Overlaid(ov.model, base.model)
     /\ eff.reasoningEffort = Overlaid(ov.reasoningEffort, base.reasoningEffort)
     /\ eff.sandbox = Overlaid(ov.sandbox, base.sandbox)
     /\ eff.workingDirectory = Overlaid(ov.workingDirectory, base.workingDirectory)
     /\ ov = NoOverrides =>
          \A flag \in {"--model", "--sandbox", "-C"} :
            ArgValue(new.child.args, flag) = ArgValue(old.child.args, flag)

\* C19 as stated: a respawned job has the interrupted job's effective
\* options, each replaced by its override where one is supplied (useFullAuto
\* too), and its label.
RespawnOverlay ==
  \A c \in CallIds :
    calls[c].respawned =>
      /\ RespawnPlainFields(calls[c])
      /\ jobs[calls[c].newJobId].spawnMetadata.effective.useFullAuto
           = IF calls[c].overrides.fullAuto # NoBool THEN calls[c].overrides.fullAuto[1]
             ELSE jobs[calls[c].jobId].spawnMetadata.effective.useFullAuto
      /\ jobs[calls[c].newJobId].spawnMetadata.label
           = jobs[calls[c].jobId].spawnMetadata.label

\* C19, amended: the same for model, reasoningEffort, sandbox and
\* workingDirectory; useFullAuto is the fullAuto override where supplied and
\* the inherited useFullAuto otherwise, but false whenever the resulting
\* sandbox is set; the label is inherited when it is not empty, and absent
\* otherwise.
RespawnOverlaySandboxRule ==
  \A c \in CallIds :
    calls[c].respawned =>
      LET old == jobs[calls[c].jobId].spawnMetadata
          new == jobs[calls[c].newJobId].spawnMetadata
          ov == calls[c].overrides
      IN /\ RespawnPlainFields(calls[c])
         /\ new.effective.useFullAuto
              = ((IF ov.fullAuto # NoBool THEN ov.fullAuto[1]
                  ELSE old.effective.useFullAuto)
                 /\ new.effective.sandbox = Undefined)
         /\ new.label = IF old.label = "" THEN Undefined ELSE old.label

RespawnOverlaySandboxRuleWitness ==
  \E c \in CallIds :
    /\ calls[c].respawned
    /\ jobs[calls[c].jobId].spawnMetadata.effective.useFullAuto
    /\ jobs[calls[c].jobId].spawnMetadata.label = "a"
    /\ calls[c].overrides.sandbox = "read-only"
    /\ calls[c].overrides.fullAuto = NoBool
    /\ calls[c].overrides.workingDirectory = "/other"
    /\ ~jobs[calls[c].newJobId].spawnMetadata.effective.useFullAuto

\* C20: a job spawned from a request has as effective sandbox the requested
\* one if there is one, else the environment's default if that is a sandbox
\* name, else none if fullAuto was requested, else workspace-write; argv
\* carries it after --sandbox.
SandboxResolution ==
  \A j \in JobIds :
    LET meta == jobs[j].spawnMetadata
        expected ==
          IF meta.requested.sandbox # Undefined THEN meta.requested.sandbox
          ELSE IF envDefaultSandbox \in {Str(name) : name \in SandboxMode}
            THEN envDefaultSandbox[1]
          ELSE IF meta.requested.fullAuto = Bool(TRUE) THEN Undefined
          ELSE "workspace-write"
    IN meta.requested.prompt = PlainArgs.prompt
       => /\ meta.effective.sandbox = expected
          /\ ArgValue(jobs[j].child.args, "--sandbox") = expected

SandboxResolutionWitness ==
  \E j \in JobIds :
    /\ envDefaultSandbox = Str("bogus")
    /\ jobs[j].spawnMetadata.requested.sandbox = Undefined
    /\ jobs[j].spawnMetadata.requested.fullAuto = Bool(TRUE)
    /\ jobs[j].spawnMetadata.effective.sandbox = Undefined
    /\ jobs[j].spawnMetadata.effective.useFullAuto

\* a step in which call c is made: its record changes to the outcome of op
CallStep(c, ops) == calls'[c] # calls[c] /\ calls'[c].op \in ops /\ calls[c].pc # "waiting"

SpawnOps == {"spawnCodexJob", "spawnCodexJobWithEffectiveOptions"}

\* C11: a spawn, from a request or from effective options, goes ahead exactly
\* when fewer jobs are running than the cap read from the environment; then it
\* appends one running record with a child and returns its jobId; otherwise it
\* throws 'Too many concurrent jobs' and the registry with every record in it
\* is as before.  Only jobs whose status is running are counted.
SpawnAdmission ==
  [][\A c \in CallIds :
       CallStep(c, SpawnOps) =>
         IF RunningIn(jobs) < parseMaxJobsFromEnv
         THEN /\ calls'[c].pc = "returned"
              /\ Len(jobs') = Len(jobs) + 1
              /\ SubSeq(jobs', 1, Len(jobs)) = jobs
              /\ calls'[c].newJobId = Len(jobs')
              /\ jobs'[Len(jobs')].status = "running"
              /\ jobs'[Len(jobs')].child.phase = "live"
         ELSE /\ calls'[c].pc = "threw"
              /\ jobs' = jobs]_vars

\* with a cap of 1: a second job was admitted beside a terminal one, and a
\* spawn from effective options was then turned away
SpawnAdmissionWitness ==
  /\ parseMaxJobsFromEnv = 1
  /\ Len(jobs) = 2
  /\ jobs[1].status # "running"
  /\ jobs[2].status = "running"
  /\ calls[1].op = "spawnCodexJobWithEffectiveOptions"
  /\ calls[1].pc = "threw"

\* the job a call on one job is about
Target(c) == calls'[c].jobIds[1]

\* C12: cancel on a job whose status is not running returns success false and
\* changes nothing: cancelRequested, the status, the events, every other field
\* of every record and the signal sent to the child are as before.
CancelNotRunning ==
  [][\A c \in CallIds :
       CallStep(c, {"cancel"}) /\ jobs[Target(c)].status # "running" =>
         ~calls'[c].ok /\ jobs' = jobs]_vars

\* a forced cancel was refused on a job that is terminal while its child,
\* never signalled, has not closed
CancelNotRunningWitness ==
  /\ calls[1].op = "cancel" /\ calls[1].pc = "returned"
  /\ calls[1].force /\ ~calls[1].ok
  /\ LET job == jobs[calls[1].jobIds[1]]
     IN job.status # "running" /\ job.child.phase = "live" /\ job.child.signal = "none"

\* C13: cancel on a running job sets cancelRequested, sends the child one
\* signal (SIGKILL when forced, SIGTERM otherwise), returns success true and
\* leaves the status running: only a later termination of the child makes
\* the status terminal.
CancelRunning ==
  [][\A c \in CallIds :
       CallStep(c, {"cancel"}) /\ jobs[Target(c)].status = "running" =>
         /\ calls'[c].ok
         /\ jobs'[Target(c)].cancelRequested
         /\ jobs'[Target(c)].child.signal =
              (IF calls'[c].force THEN "SIGKILL" ELSE "SIGTERM")
         /\ jobs'[Target(c)].status = "running"]_vars

\* a step in which the call c of op returns, at once or after its await
ReturnStep(c, op) ==
  calls'[c] # calls[c] /\ calls'[c].op = op /\ calls'[c].pc = "returned"

Elements(seq) == {seq[i] : i \in 1..Len(seq)}

\* C14: when waitAny returns a completedJobId, that identifier is one of the
\* input identifiers the registry knows, its job is in a terminal status at
\* the return, and timedOut is false; and a waitAny called while some known
\* input job is already terminal returns such a job in that same step.
WaitAnyCompleted ==
  [][\A c \in CallIds :
       /\ ReturnStep(c, "waitAny") /\ calls'[c].out.completedJobId # <<>> =>
            LET j == calls'[c].out.completedJobId[1]
            IN /\ j \in Elements(calls'[c].jobIds) /\ Has(jobs', j)
               /\ jobs'[j].status \in Terminal
               /\ ~calls'[c].out.timedOut
       /\ ( /\ CallStep(c, {"waitAny"})
            /\ \E j \in Elements(calls'[c].jobIds) :
                 Has(jobs, j) /\ jobs[j].status \in Terminal ) =>
            /\ calls'[c].pc = "returned"
            /\ calls'[c].out.completedJobId # <<>>
            /\ jobs[calls'[c].out.completedJobId[1]].status \in Terminal]_vars

\* waitAny on <<job 1, job 2>> returned job 2 while job 1 is still running
WaitAnyCompletedWitness ==
  /\ calls[1].op = "waitAny" /\ calls[1].pc = "returned"
  /\ calls[1].jobIds = <<1, 2>>
  /\ calls[1].out.completedJobId = <<2>>
  /\ jobs[1].status = "running"

\* the positions of the input of call c whose identifier the registry lacks
UnknownAt(c) == {i \in 1..Len(calls'[c].jobIds) : ~Has(jobs, calls'[c].jobIds[i])}

\* C15: waitAny never throws.  Called with no known identifier it returns at
\* once completedJobId null and timedOut false; when it returns after its
\* await while every known job is still running, it returns completedJobId
\* null and timedOut true, whatever timeoutMs was; timedOut is true in no other
\* result.  Every result has missingJobIds exactly when some input identifier
\* is unknown, and it lists the unknown identifiers, all of them and only them.
WaitAnyUnknownAndTimeout ==
  [][\A c \in CallIds :
       /\ calls'[c].op = "waitAny" => calls'[c].pc # "threw"
       /\ CallStep(c, {"waitAny"}) /\ UnknownAt(c) = 1..Len(calls'[c].jobIds) =>
            /\ calls'[c].pc = "returned"
            /\ calls'[c].out.completedJobId = <<>>
            /\ ~calls'[c].out.timedOut
       /\ ReturnStep(c, "waitAny") =>
            LET ids == calls'[c].jobIds
                out == calls'[c].out
                known == {ids[i] : i \in (1..Len(ids)) \ UnknownAt(c)}
            IN /\ ( /\ calls[c].pc = "waiting"
                    /\ \A j \in known : jobs'[j].status = "running" ) =>
                    out.completedJobId = <<>> /\ out.timedOut
               /\ out.timedOut =>
                    /\ calls[c].pc = "waiting" /\ known # {}
                    /\ out.completedJobId = <<>>
                    /\ \A j \in known : jobs'[j].status = "running"
               /\ (out.missingJobIds # <<>>) <=> (UnknownAt(c) # {})
               /\ out.missingJobIds # <<>> =>
                    /\ Len(out.missingJobIds[1]) = Cardinality(UnknownAt(c))
                    /\ Elements(out.missingJobIds[1]) = {ids[i] : i \in UnknownAt(c)}]_vars

\* waitAny with timeoutMs 0 on an unknown identifier and a running job timed
\* out and reported the unknown identifier
WaitAnyUnknownAndTimeoutWitness ==
  /\ calls[1].op = "waitAny" /\ calls[1].pc = "returned"
  /\ calls[1].ms = 0
  /\ calls[1].jobIds = <<UnknownId, 1>>
  /\ calls[1].out = WaitAnyResult(<<>>, TRUE, <<UnknownId>>)
  /\ jobs[1].status = "running"

\* C16: waitForExit returns exited true at once when the job is not running,
\* whatever waitMs is; it returns exited false at once when the job is running
\* and waitMs is zero or negative; otherwise it waits, and when it returns
\* exited is true exactly when the completion of the job has fired, and then
\* the status of the job is terminal.
WaitForExitResult ==
  [][\A c \in CallIds :
       /\ CallStep(c, {"waitForExit"}) =>
            IF jobs[Target(c)].status # "running"
            THEN calls'[c].pc = "returned" /\ calls'[c].ok
            ELSE IF calls'[c].ms <= 0
              THEN calls'[c].pc = "returned" /\ ~calls'[c].ok
            ELSE calls'[c].pc = "waiting"
       /\ ReturnStep(c, "waitForExit") /\ calls[c].pc = "waiting" =>
            /\ calls'[c].ok <=> jobs'[Target(c)].completion
            /\ calls'[c].ok => jobs'[Target(c)].status \in Terminal]_vars

\* waitForExit with a negative waitMs on a running job returned exited false,
\* and the job is still running
WaitForExitResultWitness ==
  /\ calls[1].op = "waitForExit" /\ calls[1].pc = "returned"
  /\ calls[1].ms < 0 /\ ~calls[1].ok
  /\ jobs[calls[1].jobIds[1]].status = "running"

\* the options of an argv: everything before the prompt, its last element
OptionPart(argv) == SubSeq(argv, 1, Len(argv) - 1)

\* C21: every registered job, spawned from a request, from effective options
\* or by the respawn of an interrupt with any overrides, has effective options
\* in which useFullAuto is true only when sandbox is unset; its argv has
\* --full-auto exactly when useFullAuto is true, and never has both --sandbox
\* and --full-auto.
FullAutoExcludesSandbox ==
  \A j \in JobIds :
    LET eff == jobs[j].spawnMetadata.effective
        flags == Elements(OptionPart(jobs[j].child.args))
    IN /\ eff.useFullAuto => eff.sandbox = Undefined
       /\ ("--full-auto" \in flags) <=> eff.useFullAuto
       /\ ~("--sandbox" \in flags /\ "--full-auto" \in flags)

\* a job with the sandbox read-only was respawned with the override fullAuto
\* true, and the new job has the sandbox and no useFullAuto
FullAutoExcludesSandboxWitness ==
  /\ Len(jobs) = 2
  /\ jobs[1].spawnMetadata.effective.sandbox = "read-only"
  /\ \E c \in CallIds : calls[c].respawned /\ calls[c].overrides.fullAuto = Bool(TRUE)
  /\ ~jobs[2].spawnMetadata.effective.useFullAuto
  /\ "--sandbox" \in Elements(jobs[2].child.args)

\* the position of flag in argv, 0 when it is not there
FlagAt(argv, flag) ==
  IF flag \in Elements(OptionPart(argv))
  THEN CHOOSE i \in 1..Len(argv) : argv[i] = flag /\ \A k \in 1..(i - 1) : argv[k] # flag
  ELSE 0

\* argv is laid out for the options eff and the prompt: exec --json, the
\* options that are set, each once and in their order, --skip-git-repo-check,
\* the prompt
LaidOut(argv, eff, prompt) ==
  LET valued == <<<<"--model", eff.model>>,
                  <<"-c", IF eff.reasoningEffort = Undefined THEN Undefined
                          ELSE EffortArg(eff.reasoningEffort)>>,
                  <<"--sandbox", eff.sandbox>>,
                  <<"-C", eff.workingDirectory>>>>
      order == <<"--model", "-c", "--sandbox", "--full-auto", "-C",
                 "--skip-git-repo-check">>
      set == {i \in 1..4 : valued[i][2] # Undefined}
  IN /\ argv[1] = "exec" /\ argv[2] = "--json"
     /\ argv[Len(argv)] = prompt
     /\ argv[Len(argv) - 1] = "--skip-git-repo-check"
     /\ Len(argv) = 4 + 2 * Cardinality(set) + (IF eff.useFullAuto THEN 1 ELSE 0)
     /\ \A i \in 1..4 :
          IF i \in set
          THEN /\ FlagAt(argv, valued[i][1]) > 2
               /\ argv[FlagAt(argv, valued[i][1]) + 1] = valued[i][2]
          ELSE FlagAt(argv, valued[i][1]) = 0
     /\ (FlagAt(argv, "--full-auto") > 2) <=> eff.useFullAuto
     /\ \A a, b \in 1..6 :
          (a < b /\ FlagAt(argv, order[a]) > 0 /\ FlagAt(argv, order[b]) > 0)
            => FlagAt(argv, order[a]) < FlagAt(argv, order[b])

\* C22: the argv of every job, whichever of the two functions spawned it, is
\* exec, --json, then --model m, -c model_reasoning_effort="r", --sandbox s,
\* --full-auto and -C dir, each only when set and in this order, then
\* --skip-git-repo-check, then the prompt as last element; and a job spawned
\* from a request has the argv that spawnCodexJobWithEffectiveOptions builds
\* from the effective options resolved for that request.
SameArgv ==
  \A j \in JobIds :
    LET meta == jobs[j].spawnMetadata
        fromEffective ==
          spawnCodexJobWithEffectiveOptions(
            <<>>, [prompt |-> meta.requested.prompt, effective |-> meta.effective,
                   label |-> meta.label], TRUE, nowIso)
    IN /\ LaidOut(jobs[j].child.args, meta.effective, meta.requested.prompt)
       /\ meta.requested.prompt = PlainArgs.prompt =>
            /\ Len(fromEffective) = 1
            /\ fromEffective[1].child.args = jobs[j].child.args
            /\ fromEffective[1].spawnMetadata.effective = meta.effective

\* a job spawned from a request with model, reasoningEffort, sandbox and
\* workingDirectory was respawned from its effective options
SameArgvWitness ==
  /\ Len(jobs) = 2
  /\ jobs[1].spawnMetadata.requested.prompt = PlainArgs.prompt
  /\ Len(jobs[1].child.args) = 12
  /\ jobs[2].spawnMetadata.requested.prompt = InterruptPrompt(1)
  /\ OptionPart(jobs[2].child.args) = OptionPart(jobs[1].child.args)

\* a step in which the caller of the reads specification makes a call
RequireStep(c) == calls'[c] # calls[c] /\ calls'[c].pc # "idle"

\* C23: getStatus, getResult, getSpawnMetadata, getEvents, getEventTail,
\* cancel, waitForExit and codex_interrupt (and codex_result) called with a
\* jobId the registry does not have throw 'Unknown jobId', and the registry
\* with every record in it is as before.
UnknownJobId ==
  [][\A c \in CallIds :
       RequireStep(c) /\ ~Has(jobs, calls'[c].jobId) =>
         /\ calls'[c].op \in RequireOps
         /\ calls'[c].pc = "threw" /\ calls'[c].payload = <<>>
         /\ jobs' = jobs]_vars

\* codex_interrupt with an unknown jobId threw while the registry holds a
\* running job
UnknownJobIdWitness ==
  /\ calls[1].op = "codex_interrupt" /\ calls[1].pc = "threw"
  /\ calls[1].jobId = UnknownId
  /\ Len(jobs) = 1 /\ jobs[1].status = "running"

\* the complete lines of text that are not blank, trimmed, in order
RECURSIVE CompleteLines(_)
CompleteLines(text) ==
  LET idx == IndexOf(text, LF)
  IN IF idx = 0 THEN <<>>
     ELSE LET line == Trim(SubSeq(text, 1, idx - 1))
              rest == CompleteLines(SubSeq(text, idx + 1, Len(text)))
          IN IF line = <<>> THEN rest ELSE <<line>> \o rest

\* the events the lines are to leave, in order: the parse failure for a line
\* that is no JSON, the normalized event of a document that has one
RECURSIVE EventsOf(_, _)
EventsOf(lines, stamp) ==
  IF lines = <<>> THEN <<>>
  ELSE LET parsed == JsonParse(Head(lines))
       IN (IF parsed = SyntaxError THEN <<ParseFailureEvent(stamp)>>
           ELSE normalizeThreadEvent(parsed[1], stamp))
          \o EventsOf(Tail(lines), stamp)

\* C24: each stdout line that is no valid JSON appends one error event with
\* the message 'Failed to parse codex JSONL event' and nothing else: the
\* status stays running, cancelRequested and the completion are as before, a
\* chunk of such lines only leaves turnCompleted and lastAgentMessage as they
\* were, and the valid lines after it, in the same chunk, are ingested in
\* their order.
ParseFailureIsolated ==
  [][\A j \in JobIds, chunk \in ReadsChunks :
       ( /\ jobs[j].child.phase = "live"
         /\ jobs' # jobs
         /\ jobs' = [jobs EXCEPT ![j] =
                       consumeStdoutJsonl(
                         [@ EXCEPT !.stdoutTail =
                            appendTail(@, chunk, MAX_OUTPUT_BUFFER_BYTES)],
                         chunk, nowIso)] ) =>
         LET lines == CompleteLines(jobs[j].stdoutRemainder \o chunk)
             bad == {i \in 1..Len(lines) : JsonParse(lines[i]) = SyntaxError}
             failures == {i \in 1..Len(jobs'[j].events) :
                            /\ i > Len(jobs[j].events)
                            /\ jobs'[j].events[i].type = "error"
                            /\ jobs'[j].events[i].content.message
                                 = "Failed to parse codex JSONL event"}
         IN /\ jobs'[j].status = jobs[j].status
            /\ jobs'[j].cancelRequested = jobs[j].cancelRequested
            /\ jobs'[j].completion = jobs[j].completion
            /\ Cardinality(failures) = Cardinality(bad)
            /\ jobs'[j].events = jobs[j].events \o EventsOf(lines, nowIso)
            /\ bad = 1..Len(lines) =>
                 /\ jobs'[j].turnCompleted = jobs[j].turnCompleted
                 /\ jobs'[j].lastAgentMessage = jobs[j].lastAgentMessage]_vars

\* a chunk with a line that is no JSON and then a message: the job is
\* running, with the parse failure and then the message in its events
ParseFailureIsolatedWitness ==
  /\ Len(jobs) = 1 /\ jobs[1].status = "running"
  /\ Len(jobs[1].events) = 3
  /\ jobs[1].events[2] = ParseFailureEvent(nowIso)
  /\ jobs[1].events[3].type = "message"
  /\ jobs[1].lastAgentMessage = "bye"

\* the call c has just returned from op on a job of the registry
JustReturned(c, op) ==
  calls[c].op = op /\ calls[c].pc = "returned" /\ Has(jobs, calls[c].jobId)

\* part occurs in text as a run of consecutive words
Occurs(part, text) ==
  \E i \in 0..(Len(text) - Len(part)) : SubSeq(text, i + 1, i + Len(part)) = part

\* C25: codex_result with the finalMessage view, on a job in a terminal
\* status none of whose events is a message, returns a text that is not empty,
\* has the line `status:` with that status, and has the line `exitCode:` with
\* the exit code when the record has one; on a running job without a last
\* agent message it returns the empty text.
MissingFinalMessage ==
  \A c \in CallIds :
    JustReturned(c, "codex_result") =>
      LET job == jobs[calls[c].jobId]
          text == calls[c].payload[1].text
      IN /\ ( /\ job.status \in Terminal
              /\ \A i \in 1..Len(job.events) : job.events[i].type # "message" ) =>
              /\ text # <<>>
              /\ Occurs(<<"status:", job.status>>, text)
              /\ job.exitCode # UndefinedNum =>
                   Occurs(<<"exitCode:">> \o ExitCodeString(job.exitCode), text)
              /\ job.exitCode = UndefinedNum => ~Occurs(<<"exitCode:">>, text)
         /\ job.status = "running" /\ job.lastAgentMessage = Undefined => text = <<>>

\* codex_result returned on a job that was cancelled and exited with code 0
\* without a message and without turn.completed
MissingFinalMessageWitness ==
  /\ JustReturned(1, "codex_result")
  /\ jobs[1].status = "canceled" /\ jobs[1].exitCode = Num(0)
  /\ jobs[1].lastAgentMessage = Undefined
  /\ Len(jobs[1].events) = 2

\* the positions in events of the message events whose text is a string
TextAt(events) ==
  {i \in 1..Len(events) : events[i].type = "message" /\ events[i].content.text # Undefined}

\* the text of the most recent message event with a string text
LastText(events) ==
  IF TextAt(events) = {} THEN Undefined
  ELSE events[CHOOSE i \in TextAt(events) : \A k \in TextAt(events) : k <= i].content.text

\* lastAgentMessage, lastMessage of the final event and finalMessage of
\* getResult are the text of the most recent message event with a string
\* text, and unset when there is none
LastMessageKept ==
  /\ \A j \in JobIds :
       /\ jobs[j].lastAgentMessage = LastText(jobs[j].events)
       /\ \A i \in 1..Len(jobs[j].events) :
            jobs[j].events[i].type = "final" =>
              jobs[j].events[i].content.lastMessage
                = LastText(SubSeq(jobs[j].events, 1, i - 1))
  /\ \A c \in CallIds :
       JustReturned(c, "getResult") =>
         calls[c].payload[1].finalMessage = LastText(jobs[calls[c].jobId].events)

ReadersChangeNothing ==
  [][\A c \in CallIds :
       RequireStep(c) /\ calls'[c].op \in ReadOps =>
         /\ jobs' = jobs
         /\ ( /\ calls[c].pc = "returned"
              /\ calls[c].op = calls'[c].op
              /\ calls[c].jobId = calls'[c].jobId ) =>
              calls'[c].payload = calls[c].payload]_vars

\* getEvents returned a page with an event on a job whose child has closed
ReadersChangeNothingWitness ==
  /\ JustReturned(1, "getEvents")
  /\ jobs[1].child.phase = "closed"
  /\ Len(calls[1].payload[1].events) = 2
  /\ Len(jobs[1].events) = 3

\* C28 as stated: for every buffer, chunk and cap, appendTail returns a
\* suffix of buffer + chunk of at most cap bytes, and buffer + chunk itself
\* when that has at most cap bytes.
IsSuffix(t, s) == Len(t) <= Len(s) /\ t = Slice(s, Len(s) - Len(t))

TailLaw(a) ==
  /\ IsSuffix(a.result, a.current \o a.chunk)
  /\ ByteLength(a.result) <= a.maxBytes
  /\ ByteLength(a.current \o a.chunk) <= a.maxBytes =>
       a.result = a.current \o a.chunk

Succeeded(result) == "jobId" \in DOMAIN result

SpawnFailed(job) ==
  job.child.phase = "failing" \/ job.exitCode = SpawnFailureClose[1]

SpawnErrorTerminates ==
  [][\A j \in JobIds :
       /\ (jobs[j].child.phase = "nospawn" /\ jobs'[j] # jobs[j]) =>
            /\ jobs'[j].child.phase = "failing"
            /\ jobs'[j].finishedAt = Num(clock)
            /\ jobs'[j].status =
                 IF jobs[j].cancelRequested THEN "canceled" ELSE "failed"
            /\ Len(jobs'[j].events) = Len(jobs[j].events) + 1
            /\ SubSeq(jobs'[j].events, 1, Len(jobs[j].events)) = jobs[j].events
            /\ Last(jobs'[j].events).type = "error"
            /\ jobs'[j].completion /\ ~jobs[j].completion
       /\ SpawnFailed(jobs[j]) =>
            /\ jobs[j].status \in {"failed", "canceled"}
            /\ jobs'[j].status = jobs[j].status]_vars

\* a job that could not be spawned, after its 'close' and a refused cancel
SpawnErrorTerminatesWitness ==
  \E j \in JobIds :
    /\ jobs[j].child.phase = "closed"
    /\ jobs[j].exitCode = SpawnFailureClose[1]
    /\ jobs[j].status = "failed"
    /\ CountType(jobs[j].events, "error") = 1
    /\ Last(jobs[j].events).type = "final"
    /\ jobs[j].finishedAt = Num(MaxClock)

\* C31: getEvents with cursor c and count n returns the events from start up
\* to end, where start is c read as a non-negative integer (0 for a cursor
\* that is absent, negative or no number) and end is
\* min(length, start + max(1, n)); nextCursor is the decimal string of end and
\* done tells that the status is not running.
DecimalValue(cursor) ==
  IF cursor = NoString \/ cursor = Str(<<>>) THEN 0
  ELSE IF \A i \in 1..Len(cursor[1]) : IsDigit(cursor[1][i])
       THEN DigitsPrefix(cursor[1], 0)
  ELSE 0

GetEventsSlice ==
  [][\A c \in CallIds :
       RequireStep(c) /\ calls'[c].op = "getEvents" /\ calls'[c].pc = "returned" =>
         LET args == calls'[c].args
             job == jobs[calls'[c].jobId]
             start == DecimalValue(args.cursor)
             end == Min(Len(job.events), start + Max(1, args.maxEvents))
         IN calls'[c].payload[1] =
              [events |-> SubSeq(job.events, start + 1, end),
               nextCursor |-> StringOf(end),
               done |-> job.status # "running"]]_vars

\* the last min(m, k) of the k entries of events whose type is allowed, in
\* the order they have in events; none when m is 0 or negative
LastAllowed(events, m, allowed) ==
  LET P == {i \in 1..Len(events) : events[i].type \in allowed}
      k == Cardinality(P)
      n == IF m <= 0 THEN 0 ELSE Min(m, k)
      Nth(i) == CHOOSE p \in P : Cardinality({q \in P : q < p}) = k - n + i - 1
  IN [i \in 1..n |-> events[Nth(i)]]

\* C32: getEventTail with m and an optional allow-list returns the last
\* min(m, k) of the k events whose type is allowed (all events without an
\* allow-list), in their original order, and nothing when m is 0 or negative;
\* codex_interrupt takes its tail with m clamped to 0..25 and the allow-list
\* message, error, progress.
EventTailIsLastAllowed ==
  [][/\ \A c \in CallIds :
          RequireStep(c) /\ calls'[c].op = "getEventTail" /\ calls'[c].pc = "returned" =>
            LET args == calls'[c].args
                events == jobs[calls'[c].jobId].events
            IN calls'[c].payload[1].events =
                 LastAllowed(events, args.maxEvents,
                             IF args.allowedTypes = <<>>
                             THEN {events[i].type : i \in 1..Len(events)}
                             ELSE args.allowedTypes[1])
     /\ calls[2].pc = "progress" /\ calls'[2] # calls[2] =>
          LET asked == calls'[2].parsed.tailMaxEvents
              m == IF asked = UndefinedNum THEN 25
                   ELSE IF asked.val < 0 THEN 0
                   ELSE IF asked.val > 25 THEN 25
                   ELSE asked.val
          IN /\ calls'[2].tailMaxEvents = m
             /\ calls'[2].parsed.includeEventTail # Bool(FALSE) =>
                  calls'[2].tail =
                    LastAllowed(jobs[calls[2].jobId].events, m,
                                {"message", "error", "progress"})]_vars

\* an interrupt that asked for a tail of one event took the second of three
\* events, the third being a tool call
EventTailIsLastAllowedWitness ==
  /\ calls[2].pc = "returned"
  /\ calls[2].respawned
  /\ calls[2].parsed.tailMaxEvents = Num(1)
  /\ Len(jobs[1].events) = 3
  /\ jobs[1].events[3].type = "tool_call"
  /\ calls[2].tail = <<jobs[1].events[2]>>

\* the jobs an interrupt of job j started: the prompt of each names j
RespawnsOf(j) ==
  {k \in JobIds : jobs[k].spawnMetadata.requested.prompt = InterruptPrompt(j)}

\* C38 as stated: over any interleaving of codex_interrupt calls on a job, at
\* most one returns respawned:true, so the job is replaced by at most one
\* respawned job.
RespawnedAtMostOnce ==
  \A j \in JobIds : Cardinality(RespawnsOf(j)) <= 1

RespawnAtCapThrows ==
  [][\A c \in 1..2 :
       ( /\ calls[c].pc \in {"progress", "waiting"}
         /\ calls'[c].pc \in {"returned", "threw"}
         /\ calls'[c].pc = "returned" => calls'[c].respawned ) =>
         LET reg == SubSeq(jobs', 1, Len(jobs))
             j == calls[c].jobId
         IN IF RunningIn(reg) >= parseMaxJobsFromEnv
            THEN /\ calls'[c].pc = "threw"
                 /\ ~calls'[c].respawned
                 /\ jobs' = reg
                 /\ reg[j].cancelRequested
                 /\ reg[j].child.signal = "SIGTERM"
            ELSE calls'[c].pc = "returned"]_vars

\* with a cap of one job, an interrupt that did not wait threw while the job
\* it cancelled was still running; the registry holds that job alone
RespawnAtCapThrowsWitness ==
  /\ envMaxJobs = Str(<<"1">>)
  /\ \E c \in 1..2 : calls[c].pc = "threw" /\ calls[c].jobId = 1
  /\ Len(jobs) = 1
  /\ jobs[1].status = "running"
  /\ jobs[1].cancelRequested
  /\ jobs[1].child.signal = "SIGTERM"

\* C36 as stated: turnCompleted becomes true only when a stdout line whose
\* top-level type is turn.completed is ingested; a line of another type that
\* carries a property kind = "turn.completed" leaves it false.
TurnCompletedOnlyByTurnLine ==
  [][\A j \in JobIds, chunk \in {<<"T", "}", LF>>, <<"M", "}", LF>>, <<"x", LF>>, <<"W">>, <<"}", LF>>, <<LF>>, <<"U", "}", LF>>, <<"T", "}">>} :
       ( /\ jobs[j].child.phase = "live"
         /\ jobs' = [jobs EXCEPT ![j] =
                       consumeStdoutJsonl(
                         [@ EXCEPT !.stdoutTail =
                            appendTail(@, chunk, MAX_OUTPUT_BUFFER_BYTES)],
                         chunk, nowIso)]
         /\ ~jobs[j].turnCompleted /\ jobs'[j].turnCompleted ) =>
         LET lines == CompleteLines(jobs[j].stdoutRemainder \o chunk)
         IN \E i \in 1..Len(lines) :
              /\ JsonParse(lines[i]) # SyntaxError
              /\ JsonParse(lines[i])[1].type = "turn.completed"]_vars

\* C37: a stdout line leaves an event only once its line feed has arrived,
\* and what follows the last line feed is still in stdoutRemainder when the
\* child terminates and is never parsed: the close callback appends the
\* final event and nothing else, so an unterminated last line, be it a
\* turn.completed or an agent message, changes neither turnCompleted nor
\* lastAgentMessage nor the classification.
RemainderNeverParsed ==
  [][\A j \in JobIds :
       /\ \A chunk \in {<<"W">>, <<"T", "}">>} :
            ( /\ jobs[j].child.phase = "live"
              /\ jobs' = [jobs EXCEPT ![j] =
                            consumeStdoutJsonl(
                              [@ EXCEPT !.stdoutTail =
                                 appendTail(@, chunk, MAX_OUTPUT_BUFFER_BYTES)],
                              chunk, nowIso)] ) =>
              /\ jobs'[j].events = jobs[j].events
              /\ jobs'[j].turnCompleted = jobs[j].turnCompleted
              /\ jobs'[j].lastAgentMessage = jobs[j].lastAgentMessage
              /\ jobs'[j].stdoutRemainder = jobs[j].stdoutRemainder \o chunk
       /\ jobs[j].child.phase = "live" /\ jobs'[j].child.phase = "closed" =>
            /\ jobs'[j].stdoutRemainder = jobs[j].stdoutRemainder
            /\ jobs'[j].turnCompleted = jobs[j].turnCompleted
            /\ jobs'[j].lastAgentMessage = jobs[j].lastAgentMessage
            /\ Len(jobs'[j].events) = Len(jobs[j].events) + 1
            /\ Last(jobs'[j].events).type = "final"
            /\ Last(jobs'[j].events).content.lastMessage = jobs[j].lastAgentMessage
            /\ jobs'[j].status = "canceled" <=>
                 jobs[j].cancelRequested /\ ~jobs[j].turnCompleted]_vars

\* a cancelled job whose child exited with code 0 is canceled although
\* a turn.completed document without its line feed is left in stdoutRemainder
RemainderNeverParsedWitness ==
  /\ Len(jobs) = 1
  /\ jobs[1].child.phase = "closed"
  /\ jobs[1].stdoutRemainder = <<"T", "}">>
  /\ jobs[1].cancelRequested /\ ~jobs[1].turnCompleted
  /\ jobs[1].exitCode = Num(0)
  /\ jobs[1].status = "canceled"
  /\ Last(jobs[1].events).type = "final"

\* C34: normalizeThreadEvent returns no event only for a value that is no
\* object or has no string type, and one event for every other value: for an
\* item wrapper, tool_result (item.completed) or tool_call (item.started,
\* item.updated) when the item is a command_execution, file_change,
\* mcp_tool_call or web_search, message for an agent_message, error for an
\* error item, progress for a reasoning, a todo_list, a missing or an unknown
\* item type; error for turn.failed and error, progress for any other type.
\* The type is a function of the value alone.
NormalizerTypes ==
  \A c \in CallIds :
    calls[c].pc = "returned" =>
      LET raw == calls[c].raw
          result == calls[c].result
      IN IF ~raw.isObject \/ raw.type = Undefined THEN result = NoEvent
         ELSE /\ Len(result) = 1
              /\ result[1].type =
                   IF raw.type \in {"item.started", "item.updated", "item.completed"}
                   THEN CASE raw.itemType \in {"command_execution", "file_change",
                                               "mcp_tool_call", "web_search"} ->
                               IF raw.type = "item.completed" THEN "tool_result"
                               ELSE "tool_call"
                          [] raw.itemType = "agent_message" -> "message"
                          [] raw.itemType = "error" -> "error"
                          [] OTHER -> "progress"
                   ELSE IF raw.type \in {"turn.failed", "error"} THEN "error"
                   ELSE "progress"

\* an updated web search became a tool_call
NormalizerTypesWitness ==
  /\ calls[1].pc = "returned"
  /\ calls[1].raw.type = "item.updated"
  /\ calls[1].raw.itemType = "web_search"
  /\ calls[1].result # NoEvent
  /\ calls[1].result[1].type = "tool_call"
  /\ clock = 1

\* C35: the lines handed to the normalizer depend on the concatenation of
\* the stdout chunks only, not on where the chunks are cut: the events are
\* those of the complete, trimmed, non-empty lines of the concatenation, in
\* order, blank lines leave nothing, and the remainder is what follows the
\* last line feed.
ChunkingIrrelevant ==
  \A j \in JobIds :
    LET text == jobs[j].stdoutTail
        feeds == {i \in 1..Len(text) : text[i] = LF}
        lastFeed == IF feeds = {} THEN 0 ELSE CHOOSE i \in feeds : \A k \in feeds : k <= i
    IN /\ SubSeq(jobs[j].events, 2, Len(jobs[j].events))
            = EventsOf(CompleteLines(text), nowIso)
       /\ jobs[j].stdoutRemainder = SubSeq(text, lastFeed + 1, Len(text))

\* a blank line left nothing, and the turn.completed document after it one
\* event once its line feed had arrived
ChunkingIrrelevantWitness ==
  /\ Len(jobs) = 1
  /\ jobs[1].stdoutTail = <<LF, "T", "}", LF>>
  /\ Len(jobs[1].events) = 2
  /\ jobs[1].turnCompleted
  /\ jobs[1].stdoutRemainder = <<>>

\* C33: every blocking call returns in the end, a call with a timeout even
\* if no child ever terminates; when the child of a job terminates, by close
\* or by the error of a failed spawn, the completion of the job fires and
\* every call suspended on the job is released; a completion that has fired
\* stays fired, and it fires only on a job whose status is terminal.
BlockingCallsReturn ==
  /\ [](\A j \in JobIds : jobs[j].completion => jobs[j].status \in Terminal)
  /\ [][\A j \in JobIds :
          /\ jobs[j].completion => jobs'[j].completion
          /\ jobs[j].child.phase \in {"live", "nospawn"}
               /\ jobs'[j].child.phase \in {"closed", "failing"} => jobs'[j].completion]_vars
  /\ \A c \in 1..2 : (calls[c].pc = "waiting") ~> (calls[c].pc = "returned")
  /\ \A c \in 1..2, j \in 1..MaxJobs :
       (calls[c].pc = "waiting" /\ j \in Fired(calls[c]))
         ~> (calls[c].pc = "returned" /\ (calls[c].ok \/ calls[c].out.completedJobId # <<>>))

\* both callers were suspended on job 1 and both were released when its
\* child closed
BlockingCallsReturnWitness ==
  /\ Len(jobs) >= 1
  /\ jobs[1].child.phase = "closed" /\ jobs[1].completion
  /\ \A c \in 1..2 : /\ calls[c].op = "waitForExit" /\ calls[c].pc = "returned"
                       /\ calls[c].jobIds = <<1>> /\ calls[c].ms = 250 /\ calls[c].ok

====
